---------------------------- MODULE Spec2Model ----------------------------
(***************************************************************************)
(* Model of the grida-canvas document ingestion pipeline                   *)
(* (crates/grida-canvas/src/io/io_json.rs), of the node schema             *)
(* (crates/grida-canvas/src/node/schema.rs) it builds on and of the node   *)
(* factory (crates/grida-canvas/src/node/factory.rs).                      *)
(*                                                                         *)
(* A source file is a JSON value.  JSON values are tagged records:         *)
(*   [t |-> "null"], [t |-> "bool", b], [t |-> "string", s],               *)
(*   [t |-> "number", int, n], [t |-> "array", a], [t |-> "object", o]     *)
(* where o is a function from key strings to JSON values; an absent key is *)
(* a key outside DOMAIN o.  A number written without fraction or exponent  *)
(* has int = TRUE and n its integer value; any other number has            *)
(* int = FALSE and n its value in eighths (a dyadic fixed point, so that   *)
(* every modelled value is exactly representable as an f32).  Every f32 of *)
(* the program is modelled by its value in eighths.                        *)
(***************************************************************************)
EXTENDS Integers, Sequences, FiniteSets, TLC

VARIABLES
    pc,       \* "idle", "parsed", "failed", "done" or "panicked"
    file,     \* the text handed to parse, as a JSON value (or InvalidJson)
    parsed,   \* Result<IOCanvasFile, serde_json::Error> returned by parse
    out,      \* canonical nodes converted so far: node key -> Node
    fw,       \* outcome of the last FontWeight::new call
    authored, \* the node an authoring client holds (built by NodeFactory)
    res,      \* outcome of the last query on node or on a corner radius
    jobs      \* per thread: the locals (pc, file, parsed, out) of its ingestion

vars == <<pc, file, parsed, out, fw, authored, res, jobs>>

----------------------------------------------------------------------------
(* JSON values *)

JNull == [t |-> "null"]
JBool(b) == [t |-> "bool", b |-> b]
JStr(s) == [t |-> "string", s |-> s]
JInt(i) == [t |-> "number", int |-> TRUE, n |-> i]
JFloat(whole, eighths) == [t |-> "number", int |-> FALSE, n |-> whole * 8 + eighths]
JArr(a) == [t |-> "array", a |-> a]
JObj(o) == [t |-> "object", o |-> o]
InvalidJson == [t |-> "invalid"]
EmptyObj == JObj(<<>>)

\* An f32 literal of the program, in eighths.
F32(whole) == whole * 8

Has(o, k) == k \in DOMAIN o

\* o with key k bound to v (added or replaced), and o without key k.
With(o, k, v) == [x \in DOMAIN o \cup {k} |-> IF x = k THEN v ELSE o[x]]
Without(o, k) == [x \in DOMAIN o \ {k} |-> o[x]]

IsNumber(v) == v.t = "number"

\* serde_json Number -> f32 (n.as_f64() as f32): the value in eighths.
as_f32(v) == IF v.int THEN v.n * 8 ELSE v.n

None == [some |-> FALSE]
Some(x) == [some |-> TRUE, v |-> x]

Err == [ok |-> FALSE]
Ok(x) == [ok |-> TRUE, v |-> x]


----------------------------------------------------------------------------
(* Deserialization of the typed leaves of the intermediate schema: T_ok(v)  *)
(* says whether serde accepts the JSON value v for the Rust type T, and     *)
(* T_de(v) is the value it then builds.  The numerals of the model stay far *)
(* below 2^31, so of the integer types only u8 has an upper limit that a    *)
(* modelled number can exceed; u32, usize and i32 are limited by sign.      *)

U8Max == 255

IsU8(v) == v.t = "number" /\ v.int /\ v.n >= 0 /\ v.n <= U8Max
IsUnsigned(v) == v.t = "number" /\ v.int /\ v.n >= 0
IsSigned(v) == v.t = "number" /\ v.int
IsBool(v) == v.t = "bool"
IsAny(v) == TRUE
IsObject(v) == v.t = "object"
IsArray(v) == v.t = "array"

IsArrayOf(v, P(_)) == v.t = "array" /\ \A i \in DOMAIN v.a : P(v.a[i])
IsString(v) == v.t = "string"
IsF32Pair(v) == v.t = "array" /\ Len(v.a) = 2 /\ \A i \in 1..2 : IsNumber(v.a[i])
IsF32Triple(v) == v.t = "array" /\ Len(v.a) = 3 /\ \A i \in 1..3 : IsNumber(v.a[i])

\* An optional member k of object o: absent and null both give None.
OptOk(o, k, P(_)) == Has(o, k) => (o[k].t = "null" \/ P(o[k]))
OptPresent(o, k) == Has(o, k) /\ o[k].t # "null"
\* A required member k of object o.
ReqOk(o, k, P(_)) == Has(o, k) /\ P(o[k])
\* A member with #[serde(default)]: absent gives the default, null is a value.
DefOk(o, k, P(_)) == Has(o, k) => P(o[k])

\* serde reads a derived struct from a JSON object or from a JSON array that
\* lists its members in declaration order; such an array may stop early only
\* where every remaining member has a #[serde(default)].  AsMap gives the
\* array form as the object it stands for (Unreadable when its length fits
\* no such reading) and leaves every other value alone.
Unreadable == [t |-> "unreadable"]
IndexOf(fields, k) == CHOOSE i \in DOMAIN fields : fields[i] = k
AsMap(v, fields, minLen) ==
    IF v.t # "array" THEN v
    ELSE IF Len(v.a) < minLen \/ Len(v.a) > Len(fields) THEN Unreadable
    ELSE JObj([k \in {fields[i] : i \in 1..Len(v.a)} |-> v.a[IndexOf(fields, k)]])

\* An internally tagged enum (#[serde(tag = "type")]) written as an array
\* holds its tag first and the members of the variant after it.
TagOf(v) ==
    IF v.t = "object" /\ Has(v.o, "type") THEN v.o.type
    ELSE IF v.t = "array" /\ v.a # <<>> THEN v.a[1]
    ELSE Unreadable
Body(v, fields, minLen) ==
    IF v.t = "object" THEN JObj(Without(v.o, "type"))
    ELSE IF v.t = "array" /\ v.a # <<>> THEN AsMap(JArr(Tail(v.a)), fields, minLen)
    ELSE Unreadable

RGBA_fields == <<"r", "g", "b", "a">>
RGBA_map(v) == AsMap(v, RGBA_fields, Len(RGBA_fields))

RGBA_ok(v) ==
    /\ RGBA_map(v).t = "object"
    /\ ReqOk(RGBA_map(v).o, "r", IsU8)
    /\ ReqOk(RGBA_map(v).o, "g", IsU8)
    /\ ReqOk(RGBA_map(v).o, "b", IsU8)
    /\ ReqOk(RGBA_map(v).o, "a", IsNumber)

RGBA_de(v) == [r |-> RGBA_map(v).o.r.n, g |-> RGBA_map(v).o.g.n, b |-> RGBA_map(v).o.b.n, a |-> as_f32(RGBA_map(v).o.a)]

IOGradientStop_fields == <<"offset", "color">>
IOGradientStop_map(v) == AsMap(v, IOGradientStop_fields, Len(IOGradientStop_fields))

IOGradientStop_ok(v) ==
    /\ IOGradientStop_map(v).t = "object"
    /\ ReqOk(IOGradientStop_map(v).o, "offset", IsNumber)
    /\ ReqOk(IOGradientStop_map(v).o, "color", RGBA_ok)

IOGradientStop_de(v) == [offset |-> as_f32(IOGradientStop_map(v).o.offset), color |-> RGBA_de(IOGradientStop_map(v).o.color)]

Matrix_ok(v) == v.t = "array" /\ Len(v.a) = 2 /\ \A i \in 1..2 : IsF32Triple(v.a[i])
Matrix_de(v) == [i \in 1..2 |-> [j \in 1..3 |-> as_f32(v.a[i].a[j])]]

FillTags == {"solid", "linear_gradient", "radial_gradient"}

Solid_fields == <<"color">>
Gradient_fields == <<"id", "transform", "stops">>
Fill_fields(tag) == IF tag = "solid" THEN Solid_fields ELSE Gradient_fields
Fill_tag_ok(v) == IsString(TagOf(v)) /\ TagOf(v).s \in FillTags
Fill_map(v) == Body(v, Fill_fields(TagOf(v).s), Len(Fill_fields(TagOf(v).s)))

Fill_ok(v) ==
    /\ Fill_tag_ok(v)
    /\ Fill_map(v).t = "object"
    /\ IF TagOf(v).s = "solid"
       THEN OptOk(Fill_map(v).o, "color", RGBA_ok)
       ELSE /\ OptOk(Fill_map(v).o, "id", IsString)
            /\ OptOk(Fill_map(v).o, "transform", Matrix_ok)
            /\ ReqOk(Fill_map(v).o, "stops", LAMBDA x : IsArrayOf(x, IOGradientStop_ok))

Fill_de(v) ==
    IF TagOf(v).s = "solid"
    THEN [type |-> "solid",
          color |-> IF OptPresent(Fill_map(v).o, "color")
                    THEN Some(RGBA_de(Fill_map(v).o.color)) ELSE None]
    ELSE [type |-> TagOf(v).s,
          transform |-> IF OptPresent(Fill_map(v).o, "transform")
                        THEN Some(Matrix_de(Fill_map(v).o.transform)) ELSE None,
          stops |-> [i \in DOMAIN Fill_map(v).o.stops.a |->
                       IOGradientStop_de(Fill_map(v).o.stops.a[i])]]

Border_fields == <<"borderWidth", "borderColor", "borderStyle">>
Border_map(v) == AsMap(v, Border_fields, Len(Border_fields))

Border_ok(v) ==
    /\ Border_map(v).t = "object"
    /\ OptOk(Border_map(v).o, "borderWidth", IsNumber)
    /\ OptOk(Border_map(v).o, "borderColor", RGBA_ok)
    /\ OptOk(Border_map(v).o, "borderStyle", IsString)

IOPath_fields == <<"d", "fillRule", "fill">>
IOPath_map(v) == AsMap(v, IOPath_fields, Len(IOPath_fields))

IOPath_ok(v) ==
    /\ IOPath_map(v).t = "object"
    /\ ReqOk(IOPath_map(v).o, "d", IsString)
    /\ ReqOk(IOPath_map(v).o, "fillRule", IsString)
    /\ ReqOk(IOPath_map(v).o, "fill", IsString)

IOVectorNetworkVertex_fields == <<"p">>
IOVectorNetworkVertex_map(v) ==
    AsMap(v, IOVectorNetworkVertex_fields, Len(IOVectorNetworkVertex_fields))

IOVectorNetworkVertex_ok(v) == IOVectorNetworkVertex_map(v).t = "object" /\ ReqOk(IOVectorNetworkVertex_map(v).o, "p", IsF32Pair)

IOVectorNetworkSegment_fields == <<"a", "b", "ta", "tb">>
IOVectorNetworkSegment_map(v) ==
    AsMap(v, IOVectorNetworkSegment_fields, Len(IOVectorNetworkSegment_fields))

IOVectorNetworkSegment_ok(v) ==
    /\ IOVectorNetworkSegment_map(v).t = "object"
    /\ ReqOk(IOVectorNetworkSegment_map(v).o, "a", IsUnsigned)
    /\ ReqOk(IOVectorNetworkSegment_map(v).o, "b", IsUnsigned)
    /\ ReqOk(IOVectorNetworkSegment_map(v).o, "ta", IsF32Pair)
    /\ ReqOk(IOVectorNetworkSegment_map(v).o, "tb", IsF32Pair)

\* Both members of IOVectorNetwork have #[serde(default)].
IOVectorNetwork_fields == <<"vertices", "segments">>
IOVectorNetwork_map(v) == AsMap(v, IOVectorNetwork_fields, 0)

IOVectorNetwork_ok(v) ==
    /\ IOVectorNetwork_map(v).t = "object"
    /\ DefOk(IOVectorNetwork_map(v).o, "vertices", LAMBDA x : IsArrayOf(x, IOVectorNetworkVertex_ok))
    /\ DefOk(IOVectorNetwork_map(v).o, "segments", LAMBDA x : IsArrayOf(x, IOVectorNetworkSegment_ok))

F32Pair_de(v) == <<as_f32(v.a[1]), as_f32(v.a[2])>>

IOVectorNetworkVertex_de(v) == F32Pair_de(IOVectorNetworkVertex_map(v).o.p)

IOVectorNetworkSegment_de(v) ==
    [a |-> IOVectorNetworkSegment_map(v).o.a.n,
     b |-> IOVectorNetworkSegment_map(v).o.b.n,
     ta |-> F32Pair_de(IOVectorNetworkSegment_map(v).o.ta),
     tb |-> F32Pair_de(IOVectorNetworkSegment_map(v).o.tb)]

IOVectorNetwork_de(v) ==
    [vertices |-> IF Has(IOVectorNetwork_map(v).o, "vertices")
                  THEN [i \in DOMAIN IOVectorNetwork_map(v).o.vertices.a |->
                          IOVectorNetworkVertex_de(IOVectorNetwork_map(v).o.vertices.a[i])]
                  ELSE <<>>,
     segments |-> IF Has(IOVectorNetwork_map(v).o, "segments")
                  THEN [i \in DOMAIN IOVectorNetwork_map(v).o.segments.a |->
                          IOVectorNetworkSegment_de(IOVectorNetwork_map(v).o.segments.a[i])]
                  ELSE <<>>]

TextAlignNames == {"left", "right", "center", "justify"}
TextAlignVerticalNames == {"top", "center", "bottom"}
TextDecorationNames == {"none", "underline", "overline", "line-through"}

\* FontWeight derives Deserialize: a newtype over u32, read without FontWeight::new.
FontWeight_ok(v) == IsUnsigned(v)
FontWeight_de(v) == v.n

IsStringArray(v) == IsArrayOf(v, IsString)
IsStringMap(v) == v.t = "object" /\ \A k \in DOMAIN v.o : IsString(v.o[k])
IsTextAlign(v) == IsString(v) /\ v.s \in TextAlignNames
IsTextAlignVertical(v) == IsString(v) /\ v.s \in TextAlignVerticalNames
IsTextDecoration(v) == IsString(v) /\ v.s \in TextDecorationNames

----------------------------------------------------------------------------
(* The node structs of the intermediate schema.  o is the node object with *)
(* its "type" member removed; unknown members are ignored.                 *)

IOContainerNode_ok(o) ==
    /\ ReqOk(o, "id", IsString)
    /\ ReqOk(o, "name", IsString)
    /\ DefOk(o, "active", IsBool)
    /\ DefOk(o, "locked", IsBool)
    /\ DefOk(o, "opacity", IsNumber)
    /\ DefOk(o, "rotation", IsNumber)
    /\ DefOk(o, "zIndex", IsSigned)
    /\ OptOk(o, "position", IsString)
    /\ ReqOk(o, "left", IsNumber)
    /\ ReqOk(o, "top", IsNumber)
    /\ ReqOk(o, "width", IsAny)
    /\ ReqOk(o, "height", IsAny)
    /\ ReqOk(o, "children", IsStringArray)
    /\ OptOk(o, "expanded", IsBool)
    /\ OptOk(o, "fill", Fill_ok)
    /\ OptOk(o, "border", Border_ok)
    /\ OptOk(o, "style", IsObject)
    /\ DefOk(o, "cornerRadius", IsAny)
    /\ OptOk(o, "padding", IsAny)
    /\ OptOk(o, "layout", IsString)
    /\ OptOk(o, "direction", IsString)
    /\ OptOk(o, "mainAxisAlignment", IsString)
    /\ OptOk(o, "crossAxisAlignment", IsString)
    /\ OptOk(o, "mainAxisGap", IsNumber)
    /\ OptOk(o, "crossAxisGap", IsNumber)

IOTextNode_ok(o) ==
    /\ ReqOk(o, "id", IsString)
    /\ ReqOk(o, "name", IsString)
    /\ DefOk(o, "active", IsBool)
    /\ DefOk(o, "locked", IsBool)
    /\ DefOk(o, "opacity", IsNumber)
    /\ DefOk(o, "rotation", IsNumber)
    /\ DefOk(o, "zIndex", IsSigned)
    /\ OptOk(o, "position", IsString)
    /\ ReqOk(o, "left", IsNumber)
    /\ ReqOk(o, "top", IsNumber)
    /\ OptOk(o, "right", IsNumber)
    /\ OptOk(o, "bottom", IsNumber)
    /\ ReqOk(o, "width", IsAny)
    /\ ReqOk(o, "height", IsAny)
    /\ OptOk(o, "fill", Fill_ok)
    /\ OptOk(o, "style", IsObject)
    /\ ReqOk(o, "text", IsString)
    /\ DefOk(o, "textAlign", IsTextAlign)
    /\ DefOk(o, "textAlignVertical", IsTextAlignVertical)
    /\ DefOk(o, "textDecoration", IsTextDecoration)
    /\ OptOk(o, "lineHeight", IsNumber)
    /\ OptOk(o, "letterSpacing", IsNumber)
    /\ OptOk(o, "fontSize", IsNumber)
    /\ OptOk(o, "fontFamily", IsString)
    /\ DefOk(o, "fontWeight", FontWeight_ok)

IOVectorNode_ok(o) ==
    /\ ReqOk(o, "id", IsString)
    /\ ReqOk(o, "name", IsString)
    /\ DefOk(o, "active", IsBool)
    /\ DefOk(o, "locked", IsBool)
    /\ DefOk(o, "opacity", IsNumber)
    /\ DefOk(o, "rotation", IsNumber)
    /\ DefOk(o, "zIndex", IsSigned)
    /\ OptOk(o, "position", IsString)
    /\ ReqOk(o, "left", IsNumber)
    /\ ReqOk(o, "top", IsNumber)
    /\ ReqOk(o, "width", IsNumber)
    /\ ReqOk(o, "height", IsNumber)
    /\ OptOk(o, "fill", Fill_ok)
    /\ OptOk(o, "paths", LAMBDA x : IsArrayOf(x, IOPath_ok))

IOPathNode_ok(o) ==
    /\ ReqOk(o, "id", IsString)
    /\ ReqOk(o, "name", IsString)
    /\ DefOk(o, "active", IsBool)
    /\ DefOk(o, "locked", IsBool)
    /\ DefOk(o, "opacity", IsNumber)
    /\ DefOk(o, "rotation", IsNumber)
    /\ DefOk(o, "zIndex", IsSigned)
    /\ OptOk(o, "position", IsString)
    /\ ReqOk(o, "left", IsNumber)
    /\ ReqOk(o, "top", IsNumber)
    /\ ReqOk(o, "width", IsNumber)
    /\ ReqOk(o, "height", IsNumber)
    /\ OptOk(o, "vectorNetwork", IOVectorNetwork_ok)
    /\ OptOk(o, "fill", Fill_ok)
    /\ OptOk(o, "strokeWidth", IsNumber)

IOEllipseNode_ok(o) ==
    /\ ReqOk(o, "id", IsString)
    /\ ReqOk(o, "name", IsString)
    /\ DefOk(o, "active", IsBool)
    /\ DefOk(o, "locked", IsBool)
    /\ DefOk(o, "opacity", IsNumber)
    /\ DefOk(o, "rotation", IsNumber)
    /\ DefOk(o, "zIndex", IsSigned)
    /\ OptOk(o, "position", IsString)
    /\ ReqOk(o, "left", IsNumber)
    /\ ReqOk(o, "top", IsNumber)
    /\ ReqOk(o, "width", IsNumber)
    /\ ReqOk(o, "height", IsNumber)
    /\ OptOk(o, "fill", Fill_ok)
    /\ OptOk(o, "strokeWidth", IsNumber)
    /\ OptOk(o, "strokeCap", IsString)
    /\ OptOk(o, "effects", IsArray)

IORectangleNode_ok(o) ==
    /\ ReqOk(o, "id", IsString)
    /\ ReqOk(o, "name", IsString)
    /\ DefOk(o, "active", IsBool)
    /\ DefOk(o, "locked", IsBool)
    /\ DefOk(o, "opacity", IsNumber)
    /\ DefOk(o, "rotation", IsNumber)
    /\ DefOk(o, "zIndex", IsSigned)
    /\ OptOk(o, "position", IsString)
    /\ ReqOk(o, "left", IsNumber)
    /\ ReqOk(o, "top", IsNumber)
    /\ ReqOk(o, "width", IsNumber)
    /\ ReqOk(o, "height", IsNumber)
    /\ OptOk(o, "fill", Fill_ok)
    /\ OptOk(o, "strokeWidth", IsNumber)
    /\ OptOk(o, "strokeCap", IsString)
    /\ OptOk(o, "effects", IsArray)
    /\ DefOk(o, "cornerRadius", IsAny)

----------------------------------------------------------------------------
(* Default value functions and the construction of the intermediate nodes. *)

FontWeightMin == 1
FontWeightMax == 1000

\* FontWeight::new with the upper limit excluded.
FontWeight_new_strict(value) ==
    IF value >= FontWeightMin /\ value < FontWeightMax
    THEN [panic |-> FALSE, value |-> value]
    ELSE [panic |-> TRUE, value |-> 0]

\* FontWeight::new: panics unless 1 <= value <= 1000.
FontWeight_new(value) ==
    IF value >= FontWeightMin /\ value <= FontWeightMax
    THEN [panic |-> FALSE, value |-> value]
    ELSE [panic |-> TRUE, value |-> 0]

\* FontWeight::value
FontWeight_value(w) == w.value

default_active == TRUE
default_locked == FALSE
default_opacity_zero == F32(0)
default_opacity == F32(1)
default_rotation == F32(0)
default_z_index == 0
\* The text alignment default taken to be centered.
default_text_align_center == "center"
default_text_align == "left"
default_text_align_vertical == "top"
default_text_decoration == "none"
default_font_weight == FontWeight_value(FontWeight_new(400))
default_corner_radius == None

\* RectangularCornerRadius::all and ::zero
\* The f32 values RectangularCornerRadius is queried on, with the values that
\* compare specially under ==: NaN equals nothing, -0.0 equals 0.0.
Finite(eighths) == [class |-> "finite", v |-> eighths]
NaN == [class |-> "nan", v |-> 0]
Infinity(sign) == [class |-> "inf", v |-> sign]
NegZero == [class |-> "negzero", v |-> 0]
f32_is_zero(a) == a = Finite(0) \/ a = NegZero
f32_eq(a, b) ==
    /\ a # NaN
    /\ b # NaN
    /\ (a = b \/ (f32_is_zero(a) /\ f32_is_zero(b)))

\* The constructor setting the two top corners only.
RectangularCornerRadius_all_top(value) ==
    [tl |-> value, tr |-> value, bl |-> Finite(0), br |-> Finite(0)]

RectangularCornerRadius_all(value) == [tl |-> value, tr |-> value, bl |-> value, br |-> value]
RectangularCornerRadius_zero == RectangularCornerRadius_all(F32(0))

\* v.as_f64().unwrap_or(0.0) as f32 on an arbitrary JSON value.
as_f32_or_zero(v) == IF IsNumber(v) THEN as_f32(v) ELSE F32(0)

\* deserialize_corner_radius reading a 4-element array clockwise
\* (tl, tr, br, bl).
deserialize_corner_radius_clockwise(v) ==
    IF v.t = "null" THEN None
    ELSE IF v.t = "number" THEN Some(RectangularCornerRadius_all(as_f32(v)))
    ELSE IF v.t = "array"
         THEN IF Len(v.a) = 4
              THEN Some([tl |-> as_f32_or_zero(v.a[1]),
                         tr |-> as_f32_or_zero(v.a[2]),
                         bl |-> as_f32_or_zero(v.a[4]),
                         br |-> as_f32_or_zero(v.a[3])])
              ELSE None
         ELSE None

\* deserialize_corner_radius on a present member v (Option<Value> first:
\* null is None).
deserialize_corner_radius(v) ==
    IF v.t = "null" THEN None
    ELSE IF v.t = "number" THEN Some(RectangularCornerRadius_all(as_f32(v)))
    ELSE IF v.t = "array"
         THEN IF Len(v.a) = 4
              THEN Some([tl |-> as_f32_or_zero(v.a[1]),
                         tr |-> as_f32_or_zero(v.a[2]),
                         bl |-> as_f32_or_zero(v.a[3]),
                         br |-> as_f32_or_zero(v.a[4])])
              ELSE None
         ELSE None

\* The cornerRadius member of a node object: default when absent.
corner_radius_field(o) ==
    IF Has(o, "cornerRadius") THEN deserialize_corner_radius(o.cornerRadius)
    ELSE default_corner_radius

BoolOr(o, k, d) == IF Has(o, k) THEN o[k].b ELSE d
F32Or(o, k, d) == IF Has(o, k) THEN as_f32(o[k]) ELSE d
IntOr(o, k, d) == IF Has(o, k) THEN o[k].n ELSE d
StrOr(o, k, d) == IF Has(o, k) THEN o[k].s ELSE d
OptF32(o, k) == IF OptPresent(o, k) THEN Some(as_f32(o[k])) ELSE None
OptStr(o, k) == IF OptPresent(o, k) THEN Some(o[k].s) ELSE None
OptFill(o, k) == IF OptPresent(o, k) THEN Some(Fill_de(o[k])) ELSE None
StringArray_de(v) == [i \in DOMAIN v.a |-> v.a[i].s]

IOContainerNode_de(o) ==
    [variant |-> "Container",
     id |-> o.id.s,
     name |-> o.name.s,
     active |-> BoolOr(o, "active", default_active),
     locked |-> BoolOr(o, "locked", default_locked),
     opacity |-> F32Or(o, "opacity", default_opacity),
     rotation |-> F32Or(o, "rotation", default_rotation),
     z_index |-> IntOr(o, "zIndex", default_z_index),
     left |-> as_f32(o.left),
     top |-> as_f32(o.top),
     width |-> o.width,
     height |-> o.height,
     children |-> StringArray_de(o.children),
     fill |-> OptFill(o, "fill"),
     border |-> OptPresent(o, "border"),
     corner_radius |-> corner_radius_field(o)]

IOTextNode_de(o) ==
    [variant |-> "Text",
     id |-> o.id.s,
     name |-> o.name.s,
     active |-> BoolOr(o, "active", default_active),
     locked |-> BoolOr(o, "locked", default_locked),
     opacity |-> F32Or(o, "opacity", default_opacity),
     rotation |-> F32Or(o, "rotation", default_rotation),
     z_index |-> IntOr(o, "zIndex", default_z_index),
     left |-> as_f32(o.left),
     top |-> as_f32(o.top),
     width |-> o.width,
     height |-> o.height,
     fill |-> OptFill(o, "fill"),
     text |-> o.text.s,
     text_align |-> StrOr(o, "textAlign", default_text_align),
     text_align_vertical |-> StrOr(o, "textAlignVertical", default_text_align_vertical),
     text_decoration |-> StrOr(o, "textDecoration", default_text_decoration),
     line_height |-> OptF32(o, "lineHeight"),
     letter_spacing |-> OptF32(o, "letterSpacing"),
     font_size |-> OptF32(o, "fontSize"),
     font_family |-> OptStr(o, "fontFamily"),
     font_weight |-> IF Has(o, "fontWeight") THEN FontWeight_de(o.fontWeight)
                     ELSE default_font_weight]

IOVectorNode_de(o) ==
    [variant |-> "Vector",
     id |-> o.id.s,
     name |-> o.name.s,
     active |-> BoolOr(o, "active", default_active),
     locked |-> BoolOr(o, "locked", default_locked),
     opacity |-> F32Or(o, "opacity", default_opacity),
     rotation |-> F32Or(o, "rotation", default_rotation),
     z_index |-> IntOr(o, "zIndex", default_z_index),
     left |-> as_f32(o.left),
     top |-> as_f32(o.top),
     width |-> as_f32(o.width),
     height |-> as_f32(o.height),
     fill |-> OptFill(o, "fill"),
     paths |-> IF OptPresent(o, "paths")
               THEN Some([i \in DOMAIN o.paths.a |-> IOPath_map(o.paths.a[i]).o.d.s])
               ELSE None]

IOPathNode_de(o) ==
    [variant |-> "Path",
     id |-> o.id.s,
     name |-> o.name.s,
     active |-> BoolOr(o, "active", default_active),
     locked |-> BoolOr(o, "locked", default_locked),
     opacity |-> F32Or(o, "opacity", default_opacity),
     rotation |-> F32Or(o, "rotation", default_rotation),
     z_index |-> IntOr(o, "zIndex", default_z_index),
     left |-> as_f32(o.left),
     top |-> as_f32(o.top),
     width |-> as_f32(o.width),
     height |-> as_f32(o.height),
     vector_network |-> IF OptPresent(o, "vectorNetwork")
                        THEN Some(IOVectorNetwork_de(o.vectorNetwork)) ELSE None,
     fill |-> OptFill(o, "fill"),
     stroke_width |-> OptF32(o, "strokeWidth")]

IOEllipseNode_de(o) ==
    [variant |-> "Ellipse",
     id |-> o.id.s,
     name |-> o.name.s,
     active |-> BoolOr(o, "active", default_active),
     locked |-> BoolOr(o, "locked", default_locked),
     opacity |-> F32Or(o, "opacity", default_opacity),
     rotation |-> F32Or(o, "rotation", default_rotation),
     z_index |-> IntOr(o, "zIndex", default_z_index),
     left |-> as_f32(o.left),
     top |-> as_f32(o.top),
     width |-> as_f32(o.width),
     height |-> as_f32(o.height),
     fill |-> OptFill(o, "fill"),
     stroke_width |-> OptF32(o, "strokeWidth")]

IORectangleNode_de(o) ==
    [variant |-> "Rectangle",
     id |-> o.id.s,
     name |-> o.name.s,
     active |-> BoolOr(o, "active", default_active),
     locked |-> BoolOr(o, "locked", default_locked),
     opacity |-> F32Or(o, "opacity", default_opacity),
     rotation |-> F32Or(o, "rotation", default_rotation),
     z_index |-> IntOr(o, "zIndex", default_z_index),
     left |-> as_f32(o.left),
     top |-> as_f32(o.top),
     width |-> as_f32(o.width),
     height |-> as_f32(o.height),
     fill |-> OptFill(o, "fill"),
     stroke_width |-> OptF32(o, "strokeWidth"),
     corner_radius |-> corner_radius_field(o)]

----------------------------------------------------------------------------
(* IONode, IOScene, IODocument, IOCanvasFile and parse. *)

\* The recognized "type" tags of IONode; every other tag is IONode::Unknown.
NodeTags == {"container", "text", "vector", "path", "ellipse", "rectangle"}

IOContainerNode_fields ==
    <<"id", "name", "active", "locked", "opacity", "rotation", "zIndex",
      "position", "left", "top", "width", "height", "children", "expanded",
      "fill", "border", "style", "cornerRadius", "padding", "layout",
      "direction", "mainAxisAlignment", "crossAxisAlignment", "mainAxisGap",
      "crossAxisGap">>
IOTextNode_fields ==
    <<"id", "name", "active", "locked", "opacity", "rotation", "zIndex",
      "position", "left", "top", "right", "bottom", "width", "height", "fill",
      "style", "text", "textAlign", "textAlignVertical", "textDecoration",
      "lineHeight", "letterSpacing", "fontSize", "fontFamily", "fontWeight">>
IOVectorNode_fields ==
    <<"id", "name", "active", "locked", "opacity", "rotation", "zIndex",
      "position", "left", "top", "width", "height", "fill", "paths">>
IOPathNode_fields ==
    <<"id", "name", "active", "locked", "opacity", "rotation", "zIndex",
      "position", "left", "top", "width", "height", "vectorNetwork", "fill",
      "strokeWidth">>
IOEllipseNode_fields ==
    <<"id", "name", "active", "locked", "opacity", "rotation", "zIndex",
      "position", "left", "top", "width", "height", "fill", "strokeWidth",
      "strokeCap", "effects">>
IORectangleNode_fields ==
    <<"id", "name", "active", "locked", "opacity", "rotation", "zIndex",
      "position", "left", "top", "width", "height", "fill", "strokeWidth",
      "strokeCap", "effects", "cornerRadius">>

IONode_fields(tag) ==
    CASE tag = "container" -> IOContainerNode_fields
      [] tag = "text" -> IOTextNode_fields
      [] tag = "vector" -> IOVectorNode_fields
      [] tag = "path" -> IOPathNode_fields
      [] tag = "ellipse" -> IOEllipseNode_fields
      [] tag = "rectangle" -> IORectangleNode_fields
      [] OTHER -> <<>>

\* The last member of IOTextNode (fontWeight) and of IORectangleNode
\* (cornerRadius) has a serde default; every other node struct ends in a
\* member without one.
IONode_min_len(tag) ==
    IF tag \in {"text", "rectangle"}
    THEN Len(IONode_fields(tag)) - 1
    ELSE Len(IONode_fields(tag))

IONode_map(v) == Body(v, IONode_fields(TagOf(v).s), IONode_min_len(TagOf(v).s))

IONode_ok(v) ==
    /\ IsString(TagOf(v))
    /\ \/ TagOf(v).s \notin NodeTags
       \/ /\ IONode_map(v).t = "object"
          /\ CASE TagOf(v).s = "container" -> IOContainerNode_ok(IONode_map(v).o)
               [] TagOf(v).s = "text" -> IOTextNode_ok(IONode_map(v).o)
               [] TagOf(v).s = "vector" -> IOVectorNode_ok(IONode_map(v).o)
               [] TagOf(v).s = "path" -> IOPathNode_ok(IONode_map(v).o)
               [] TagOf(v).s = "ellipse" -> IOEllipseNode_ok(IONode_map(v).o)
               [] TagOf(v).s = "rectangle" -> IORectangleNode_ok(IONode_map(v).o)

IONode_de(v) ==
    CASE TagOf(v).s = "container" -> IOContainerNode_de(IONode_map(v).o)
      [] TagOf(v).s = "text" -> IOTextNode_de(IONode_map(v).o)
      [] TagOf(v).s = "vector" -> IOVectorNode_de(IONode_map(v).o)
      [] TagOf(v).s = "path" -> IOPathNode_de(IONode_map(v).o)
      [] TagOf(v).s = "ellipse" -> IOEllipseNode_de(IONode_map(v).o)
      [] TagOf(v).s = "rectangle" -> IORectangleNode_de(IONode_map(v).o)
      [] OTHER -> [variant |-> "Unknown"]

IOScene_fields ==
    <<"id", "name", "type", "children", "backgroundColor", "guides", "constraints">>
IOScene_map(v) == AsMap(v, IOScene_fields, Len(IOScene_fields))

IOScene_ok(v) ==
    /\ IOScene_map(v).t = "object"
    /\ ReqOk(IOScene_map(v).o, "id", IsString)
    /\ ReqOk(IOScene_map(v).o, "name", IsString)
    /\ ReqOk(IOScene_map(v).o, "type", IsString)
    /\ ReqOk(IOScene_map(v).o, "children", IsStringArray)
    /\ OptOk(IOScene_map(v).o, "backgroundColor", RGBA_ok)
    /\ OptOk(IOScene_map(v).o, "guides", IsArray)
    /\ OptOk(IOScene_map(v).o, "constraints", IsStringMap)

IOScene_de(v) ==
    [id |-> IOScene_map(v).o.id.s,
     name |-> IOScene_map(v).o.name.s,
     type_name |-> IOScene_map(v).o.type.s,
     children |-> StringArray_de(IOScene_map(v).o.children),
     background_color |-> IF OptPresent(IOScene_map(v).o, "backgroundColor")
                          THEN Some(RGBA_de(IOScene_map(v).o.backgroundColor))
                          ELSE None]

IsMapOf(v, P(_)) == v.t = "object" /\ \A k \in DOMAIN v.o : P(v.o[k])

IODocument_fields == <<"bitmaps", "properties", "nodes", "scenes", "entry_scene_id">>
IODocument_map(v) == AsMap(v, IODocument_fields, Len(IODocument_fields))

IODocument_ok(v) ==
    /\ IODocument_map(v).t = "object"
    /\ ReqOk(IODocument_map(v).o, "bitmaps", IsObject)
    /\ ReqOk(IODocument_map(v).o, "properties", IsObject)
    /\ ReqOk(IODocument_map(v).o, "nodes", LAMBDA x : IsMapOf(x, IONode_ok))
    /\ ReqOk(IODocument_map(v).o, "scenes", LAMBDA x : IsMapOf(x, IOScene_ok))
    /\ OptOk(IODocument_map(v).o, "entry_scene_id", IsString)

IODocument_de(v) ==
    [nodes |-> [k \in DOMAIN IODocument_map(v).o.nodes.o |->
                  IONode_de(IODocument_map(v).o.nodes.o[k])],
     scenes |-> [k \in DOMAIN IODocument_map(v).o.scenes.o |->
                   IOScene_de(IODocument_map(v).o.scenes.o[k])],
     entry_scene_id |-> OptStr(IODocument_map(v).o, "entry_scene_id")]

IOCanvasFile_fields == <<"version", "document">>
IOCanvasFile_map(v) == AsMap(v, IOCanvasFile_fields, Len(IOCanvasFile_fields))

IOCanvasFile_ok(v) ==
    /\ IOCanvasFile_map(v).t = "object"
    /\ ReqOk(IOCanvasFile_map(v).o, "version", IsString)
    /\ ReqOk(IOCanvasFile_map(v).o, "document", IODocument_ok)

IOCanvasFile_de(v) ==
    [version |-> IOCanvasFile_map(v).o.version.s,
     document |-> IODocument_de(IOCanvasFile_map(v).o.document)]

\* parse falling back to an empty document where deserialization fails.
parse_lenient(f) ==
    IF IOCanvasFile_ok(f) THEN Ok(IOCanvasFile_de(f))
    ELSE Ok([version |-> "",
             document |-> [nodes |-> <<>>, scenes |-> <<>>, entry_scene_id |-> None]])

\* parse: serde_json::from_str into IOCanvasFile.
parse(f) == IF IOCanvasFile_ok(f) THEN Ok(IOCanvasFile_de(f)) ELSE Err

----------------------------------------------------------------------------
(* Conversion of the intermediate schema into the canonical node model. *)

\* `x as u8` on an f32 holding x eighths: truncate toward zero, saturate.
f32_as_u8(x) ==
    IF x <= 0 THEN 0
    ELSE IF x \div 8 > U8Max THEN U8Max
    ELSE x \div 8

\* impl From<RGBA> for Color casting the alpha without scaling it.
Color_from_RGBA_unscaled(color) == <<color.r, color.g, color.b, f32_as_u8(color.a)>>

\* impl From<RGBA> for Color: Color(r, g, b, (a * 255.0) as u8)
Color_from_RGBA(color) == <<color.r, color.g, color.b, f32_as_u8(color.a * 255)>>

\* The transforms the pipeline builds, kept as the constructor applications.
AffineTransform_identity == [ctor |-> "identity"]
AffineTransform_new(tx, ty, rotation) ==
    [ctor |-> "new", tx |-> tx, ty |-> ty, rotation |-> rotation]
AffineTransform_matrix(m) == [ctor |-> "matrix", matrix |-> m]

SolidPaint(color) == [type |-> "Solid", color |-> color, opacity |-> F32(1)]

\* impl From<IOGradientStop> for GradientStop
GradientStop_from(stop) == [offset |-> stop.offset, color |-> Color_from_RGBA(stop.color)]

\* The gradient conversion collecting its stops last to first.
GradientPaint_reversed(type, fill) ==
    [type |-> type,
     transform |-> IF fill.transform.some
                   THEN AffineTransform_matrix(fill.transform.v)
                   ELSE AffineTransform_identity,
     stops |-> [i \in DOMAIN fill.stops |->
                  GradientStop_from(fill.stops[Len(fill.stops) + 1 - i])],
     opacity |-> F32(1)]

GradientPaint(type, fill) ==
    [type |-> type,
     transform |-> IF fill.transform.some
                   THEN AffineTransform_matrix(fill.transform.v)
                   ELSE AffineTransform_identity,
     stops |-> [i \in DOMAIN fill.stops |-> GradientStop_from(fill.stops[i])],
     opacity |-> F32(1)]

\* impl From<Option<Fill>> for Paint
Paint_from(fill) ==
    IF ~fill.some THEN SolidPaint(<<0, 0, 0, 0>>)
    ELSE IF fill.v.type = "solid"
         THEN SolidPaint(IF fill.v.color.some
                         THEN Color_from_RGBA(fill.v.color.v)
                         ELSE <<0, 0, 0, 0>>)
    ELSE IF fill.v.type = "linear_gradient"
         THEN GradientPaint("LinearGradient", fill.v)
         ELSE GradientPaint("RadialGradient", fill.v)

\* The width/height match falling back to the default size 100.0.
size_value_default(v) == IF v.t = "number" THEN as_f32(v) ELSE F32(100)

\* The width/height match of the container and text conversions.
size_value(v) == IF v.t = "number" THEN as_f32(v) ELSE F32(0)

\* The stroke the conversions would leave out.
BlackStroke_absent == None

BlackStroke == SolidPaint(<<0, 0, 0, 255>>)

\* impl From<IOContainerNode> for ContainerNode
ContainerNode_from(node) ==
    [kind |-> "Container",
     id |-> node.id,
     name |-> node.name,
     active |-> node.active,
     blend_mode |-> "Normal",
     transform |-> AffineTransform_new(node.left, node.top, node.rotation),
     size |-> [width |-> size_value(node.width), height |-> size_value(node.height)],
     corner_radius |-> IF node.corner_radius.some THEN node.corner_radius.v
                       ELSE RectangularCornerRadius_zero,
     fill |-> Paint_from(node.fill),
     stroke |-> None,
     stroke_width |-> F32(0),
     stroke_align |-> "Inside",
     stroke_dash_array |-> None,
     effect |-> None,
     children |-> node.children,
     opacity |-> node.opacity,
     clip |-> TRUE]

\* impl From<IOTextNode> for TextSpanNode
TextSpanNode_from(node) ==
    [kind |-> "TextSpan",
     id |-> node.id,
     name |-> node.name,
     active |-> node.active,
     blend_mode |-> "Normal",
     transform |-> AffineTransform_new(node.left, node.top, node.rotation),
     size |-> [width |-> size_value(node.width), height |-> size_value(node.height)],
     text |-> node.text,
     text_style |-> [text_decoration |-> node.text_decoration,
                     font_family |-> IF node.font_family.some THEN node.font_family.v
                                     ELSE "Inter",
                     font_size |-> IF node.font_size.some THEN node.font_size.v
                                   ELSE F32(14),
                     font_weight |-> node.font_weight,
                     italic |-> FALSE,
                     letter_spacing |-> node.letter_spacing,
                     line_height |-> node.line_height,
                     text_transform |-> "None"],
     text_align |-> node.text_align,
     text_align_vertical |-> node.text_align_vertical,
     fill |-> Paint_from(node.fill),
     stroke |-> None,
     stroke_width |-> None,
     stroke_align |-> "Inside",
     opacity |-> node.opacity]

UnwrapOr(opt, d) == IF opt.some THEN opt.v ELSE d

\* impl From<IOEllipseNode> for Node
Node_from_IOEllipseNode(node) ==
    [kind |-> "Ellipse",
     id |-> node.id,
     name |-> node.name,
     active |-> node.active,
     blend_mode |-> "Normal",
     transform |-> AffineTransform_new(node.left, node.top, node.rotation),
     size |-> [width |-> node.width, height |-> node.height],
     fill |-> Paint_from(node.fill),
     stroke |-> BlackStroke,
     stroke_width |-> UnwrapOr(node.stroke_width, F32(0)),
     stroke_align |-> "Inside",
     stroke_dash_array |-> None,
     effect |-> None,
     opacity |-> node.opacity]

\* The rectangle conversion clamping every corner to half the smaller side.
Node_from_IORectangleNode_clamped(node) ==
    LET half == (IF node.width <= node.height THEN node.width ELSE node.height) \div 2
        clamp(r) == IF r <= half THEN r ELSE half
        given == UnwrapOr(node.corner_radius, RectangularCornerRadius_zero)
    IN [kind |-> "Rectangle",
        id |-> node.id,
        name |-> node.name,
        active |-> node.active,
        blend_mode |-> "Normal",
        transform |-> AffineTransform_new(node.left, node.top, node.rotation),
        size |-> [width |-> node.width, height |-> node.height],
        corner_radius |-> [tl |-> clamp(given.tl), tr |-> clamp(given.tr),
                           bl |-> clamp(given.bl), br |-> clamp(given.br)],
        fill |-> Paint_from(node.fill),
        stroke |-> BlackStroke,
        stroke_width |-> UnwrapOr(node.stroke_width, F32(0)),
        stroke_align |-> "Inside",
        stroke_dash_array |-> None,
        effect |-> None,
        opacity |-> node.opacity]

\* impl From<IORectangleNode> for Node
Node_from_IORectangleNode(node) ==
    [kind |-> "Rectangle",
     id |-> node.id,
     name |-> node.name,
     active |-> node.active,
     blend_mode |-> "Normal",
     transform |-> AffineTransform_new(node.left, node.top, node.rotation),
     size |-> [width |-> node.width, height |-> node.height],
     corner_radius |-> UnwrapOr(node.corner_radius, RectangularCornerRadius_zero),
     fill |-> Paint_from(node.fill),
     stroke |-> BlackStroke,
     stroke_width |-> UnwrapOr(node.stroke_width, F32(0)),
     stroke_align |-> "Inside",
     stroke_dash_array |-> None,
     effect |-> None,
     opacity |-> node.opacity]

\* impl From<IOVectorNode> for Node: a Path node whose data is the paths' d
\* strings joined by " " (kept here as the list of the joined strings).
Node_from_IOVectorNode(node) ==
    [kind |-> "Path",
     id |-> node.id,
     name |-> node.name,
     active |-> node.active,
     blend_mode |-> "Normal",
     transform |-> AffineTransform_new(node.left, node.top, node.rotation),
     fill |-> Paint_from(node.fill),
     data |-> IF node.paths.some
              THEN [i \in DOMAIN node.paths.v |-> [op |-> "d", args |-> <<node.paths.v[i]>>]]
              ELSE <<>>,
     stroke |-> BlackStroke,
     stroke_width |-> F32(0),
     stroke_align |-> "Inside",
     stroke_dash_array |-> None,
     opacity |-> node.opacity,
     effect |-> None]

\* vn.vertices[i] with a 0-based index i; an index out of range panics.
InRange(vn, i) == i + 1 \in DOMAIN vn.vertices
Vertex(vn, i) == vn.vertices[i + 1]

\* Whether vector_network_to_path panics on an index out of bounds.
vector_network_to_path_panics(vn) ==
    /\ vn.vertices # <<>>
    /\ \E i \in DOMAIN vn.segments :
          ~InRange(vn, vn.segments[i].a) \/ ~InRange(vn, vn.segments[i].b)

\* The curve command with the two tangents exchanged.
CurveTo_swapped(vn, seg) ==
    LET a == Vertex(vn, seg.a)
        b == Vertex(vn, seg.b)
    IN [op |-> "C",
        args |-> <<a[1] + seg.tb[1], a[2] + seg.tb[2],
                   b[1] + seg.ta[1], b[2] + seg.ta[2],
                   b[1], b[2]>>]

CurveTo(vn, seg) ==
    LET a == Vertex(vn, seg.a)
        b == Vertex(vn, seg.b)
    IN [op |-> "C",
        args |-> <<a[1] + seg.ta[1], a[2] + seg.ta[2],
                   b[1] + seg.tb[1], b[2] + seg.tb[2],
                   b[1], b[2]>>]

\* The reconstruction that moves to the start vertex of every segment before
\* drawing its curve.
vector_network_to_path_restarting(vn) ==
    IF vn.vertices = <<>> THEN <<>>
    ELSE IF vn.segments = <<>> THEN << [op |-> "M", args |-> <<F32(0), F32(0)>>] >>
    ELSE [j \in 1..(2 * Len(vn.segments)) |->
            IF j % 2 = 1
            THEN [op |-> "M", args |-> Vertex(vn, vn.segments[(j + 1) \div 2].a)]
            ELSE CurveTo(vn, vn.segments[j \div 2])]

\* The reconstruction moving to the first listed vertex instead of the first
\* segment's start vertex.
vector_network_to_path_first_vertex(vn) ==
    IF vn.vertices = <<>> THEN <<>>
    ELSE << [op |-> "M", args |-> vn.vertices[1]] >>
            \o [i \in DOMAIN vn.segments |-> CurveTo(vn, vn.segments[i])]

\* vector_network_to_path: the path string as its list of commands; the
\* empty list is the empty string.
vector_network_to_path(vn) ==
    IF vn.vertices = <<>> THEN <<>>
    ELSE LET first == IF vn.segments # <<>>
                      THEN Vertex(vn, vn.segments[1].a)
                      ELSE <<F32(0), F32(0)>>
         IN << [op |-> "M", args |-> first] >>
            \o [i \in DOMAIN vn.segments |-> CurveTo(vn, vn.segments[i])]

\* impl From<IOPathNode> for Node
Node_from_IOPathNode(node) ==
    [kind |-> "Path",
     id |-> node.id,
     name |-> node.name,
     active |-> node.active,
     blend_mode |-> "Normal",
     transform |-> AffineTransform_new(node.left, node.top, node.rotation),
     fill |-> Paint_from(node.fill),
     data |-> IF node.vector_network.some
              THEN vector_network_to_path(node.vector_network.v)
              ELSE <<>>,
     stroke |-> BlackStroke,
     stroke_width |-> UnwrapOr(node.stroke_width, F32(0)),
     stroke_align |-> "Inside",
     stroke_dash_array |-> None,
     opacity |-> node.opacity,
     effect |-> None]

\* The IONode::Unknown arm building an active placeholder.
UnknownErrorNode_active ==
    [kind |-> "Error",
     id |-> "unknown",
     name |-> "Unknown Node",
     active |-> TRUE,
     transform |-> AffineTransform_identity,
     size |-> [width |-> F32(100), height |-> F32(100)],
     opacity |-> F32(1),
     error |-> "Unknown node"]

\* The IONode::Unknown arm of impl From<IONode> for Node.
UnknownErrorNode ==
    [kind |-> "Error",
     id |-> "unknown",
     name |-> "Unknown Node",
     active |-> FALSE,
     transform |-> AffineTransform_identity,
     size |-> [width |-> F32(100), height |-> F32(100)],
     opacity |-> F32(1),
     error |-> "Unknown node"]

\* Whether impl From<IONode> for Node panics on the node.
Node_from_panics(node) ==
    /\ node.variant = "Path"
    /\ node.vector_network.some
    /\ vector_network_to_path_panics(node.vector_network.v)

\* impl From<IONode> for Node
Node_from(node) ==
    CASE node.variant = "Container" -> ContainerNode_from(node)
      [] node.variant = "Text" -> TextSpanNode_from(node)
      [] node.variant = "Vector" -> Node_from_IOVectorNode(node)
      [] node.variant = "Path" -> Node_from_IOPathNode(node)
      [] node.variant = "Ellipse" -> Node_from_IOEllipseNode(node)
      [] node.variant = "Rectangle" -> Node_from_IORectangleNode(node)
      [] node.variant = "Unknown" -> UnknownErrorNode

----------------------------------------------------------------------------
(* The source files the model feeds to parse. *)

\* Largest number of node objects in one modelled document.
MaxNodes == 2
\* Largest argument handed to FontWeight::new.
MaxWeightArg == 1100

KeyNames == <<"n1", "n2", "n3", "n4">>
Keys == {KeyNames[i] : i \in 1..MaxNodes}

UnknownTags == {"sticky-note", "group"}
Tags == NodeTags \cup UnknownTags

\* A minimal well-formed node object of the given tag.
BaseNode(tag, id) ==
    LET common == [type |-> JStr(tag), id |-> JStr(id), name |-> JStr("node"),
                   left |-> JInt(3), top |-> JFloat(4, 4),
                   width |-> JInt(10), height |-> JFloat(20, 2)]
    IN CASE tag = "container" -> With(common, "children", JArr(<<>>))
         [] tag = "text" -> With(common, "text", JStr("hello"))
         [] OTHER -> common

FourNumbers == JArr(<<JInt(1), JInt(2), JInt(3), JInt(4)>>)

SolidFill(r, g, b, a) ==
    JObj([type |-> JStr("solid"),
          color |-> JObj([r |-> JInt(r), g |-> JInt(g), b |-> JInt(b), a |-> a])])

ProbeValues ==
    {JNull, JBool(TRUE), JBool(FALSE), JInt(0), JInt(7), JInt(-1), JInt(5000),
     JFloat(0, 4), JStr("fill"), JStr("center"), JArr(<<>>), JArr(<<JStr("n2")>>),
     FourNumbers, EmptyObj, SolidFill(255, 0, 0, JFloat(1, 0))}

ProbeFields ==
    {"id", "name", "active", "locked", "opacity", "rotation", "zIndex", "position",
     "left", "top", "width", "height", "children", "fill", "border", "cornerRadius",
     "text", "textAlign", "fontSize", "fontFamily", "fontWeight", "strokeWidth",
     "vectorNetwork", "paths"}

\* Every node object that differs from a minimal one in one member.
OneMemberNodes ==
    {BaseNode(tag, "n1") : tag \in Tags}
    \cup {With(BaseNode(tag, "n1"), k, v) : tag \in Tags, k \in ProbeFields, v \in ProbeValues}
    \cup {Without(BaseNode(tag, "n1"), k) : tag \in Tags, k \in ProbeFields}

\* Node objects carrying any subset of the five defaulted members.
DefaultedMembers ==
    [active |-> JBool(FALSE), locked |-> JBool(TRUE), opacity |-> JFloat(0, 4),
     rotation |-> JInt(45), zIndex |-> JInt(-2)]

DefaultedNodes ==
    {[k \in DOMAIN BaseNode(tag, "n1") \cup S |->
        IF k \in S THEN DefaultedMembers[k] ELSE BaseNode(tag, "n1")[k]] :
     tag \in NodeTags, S \in SUBSET DOMAIN DefaultedMembers}

\* Container and text nodes over every pair of width and height shapes.
SizeValues ==
    {JInt(7), JFloat(2, 4), JStr("fill"), JStr("auto"), EmptyObj, JArr(<<>>),
     JBool(TRUE), JNull}

SizedNodes ==
    {With(With(BaseNode(tag, "n1"), "width", w), "height", h) :
     tag \in {"container", "text", "rectangle"}, w \in SizeValues, h \in SizeValues}

\* Rectangle and container nodes over corner-radius shapes.
RadiusElems == {JInt(1), JFloat(2, 4), JStr("x")}
CornerValues ==
    {JInt(0), JInt(10), JFloat(1, 4), JNull, JStr("round"), JBool(TRUE), EmptyObj}
    \cup {JArr(a) : a \in UNION {[1..n -> RadiusElems] : n \in {0, 1, 3, 5}}}
    \cup {JArr(a) : a \in [1..4 -> RadiusElems]}
    \cup {FourNumbers}

CornerNodes ==
    {With(BaseNode(tag, "n1"), "cornerRadius", v) :
     tag \in {"rectangle", "container"}, v \in CornerValues}

\* Nodes over fills: solid with every alpha from -1/8 to 10/8, without color.
AlphaValues == {JFloat(0, e) : e \in -1..10} \cup {JInt(0), JInt(1), JInt(2)}
Stop(offset, a) ==
    JObj([offset |-> offset,
          color |-> JObj([r |-> JInt(9), g |-> JInt(8), b |-> JInt(7), a |-> a])])
IdentityRows == JArr(<<JArr(<<JInt(1), JInt(0), JInt(0)>>), JArr(<<JInt(0), JInt(1), JInt(0)>>)>>)
ScaleRows == JArr(<<JArr(<<JInt(2), JInt(0), JInt(5)>>), JArr(<<JInt(0), JFloat(0, 4), JInt(-7)>>)>>)
GradientFills ==
    {JObj(With([type |-> JStr(t), stops |-> JArr(stops)], "transform", m)) :
        t \in {"linear_gradient", "radial_gradient"},
        stops \in {<<>>, <<Stop(JInt(0), JInt(1)), Stop(JFloat(0, 4), JFloat(0, 4))>>},
        m \in {JNull, IdentityRows, ScaleRows}}
    \cup {JObj([type |-> JStr(t), stops |-> JArr(stops)]) :
        t \in {"linear_gradient", "radial_gradient"},
        stops \in {<<Stop(JInt(1), JInt(1))>>,
                   <<Stop(JInt(1), JInt(1)), Stop(JFloat(0, 2), JFloat(0, 4))>>}}
FillValues ==
    {SolidFill(c[1], c[2], c[3], a) :
        c \in {<<0, 0, 0>>, <<255, 128, 1>>}, a \in AlphaValues}
    \cup {JObj([type |-> JStr("solid")]),
          JObj([type |-> JStr("solid"), color |-> JNull]),
          JObj([type |-> JStr("image")]),
          SolidFill(256, 0, 0, JInt(1))}
    \cup GradientFills

FilledNodes ==
    {With(BaseNode(tag, "n1"), "fill", v) :
     tag \in {"rectangle", "text", "path"}, v \in FillValues}

\* Text nodes over font weights.
WeightValues ==
    {JInt(w) : w \in {0, 1, 100, 400, 999, 1000, 1001, 5000}}
    \cup {JInt(-400), JFloat(400, 0), JStr("bold")}

WeightNodes == {With(BaseNode("text", "n1"), "fontWeight", v) : v \in WeightValues}

\* Path nodes over vector networks of up to two vertices and two segments.
VertexObj(x, y) == JObj([p |-> JArr(<<JInt(x), JInt(y)>>)])
SegmentObj(a, b) ==
    JObj([a |-> JInt(a), b |-> JInt(b),
          ta |-> JArr(<<JInt(1), JInt(0)>>), tb |-> JArr(<<JInt(0), JInt(-1)>>)])
\* Three segments over three vertices, each with tangents of its own; the
\* first segment starts at the last vertex.
ChainNetwork ==
    JObj([vertices |-> JArr(<<VertexObj(5, 6), VertexObj(7, 9), VertexObj(-2, 0)>>),
          segments |-> JArr(<<
              JObj([a |-> JInt(2), b |-> JInt(0),
                    ta |-> JArr(<<JInt(1), JInt(2)>>), tb |-> JArr(<<JInt(3), JInt(4)>>)]),
              JObj([a |-> JInt(0), b |-> JInt(1),
                    ta |-> JArr(<<JFloat(0, 4), JInt(-1)>>), tb |-> JArr(<<JInt(0), JInt(6)>>)]),
              JObj([a |-> JInt(1), b |-> JInt(1),
                    ta |-> JArr(<<JInt(-3), JInt(0)>>), tb |-> JArr(<<JInt(8), JFloat(1, 2)>>)])>>)])

NetworkValues ==
    {JObj([vertices |-> JArr(vs), segments |-> JArr(ss)]) :
        vs \in {<<>>, <<VertexObj(5, 6)>>, <<VertexObj(5, 6), VertexObj(7, 9)>>},
        ss \in {<<>>} \cup {<<SegmentObj(a, b)>> : a \in 0..2, b \in 0..1}
                      \cup {<<SegmentObj(0, 1), SegmentObj(a, 0)>> : a \in 0..1}}
    \cup {EmptyObj, ChainNetwork,
          JObj([vertices |-> JArr(<<>>), segments |-> JArr(<<SegmentObj(0, 0)>>)])}

NetworkNodes == {With(BaseNode("path", "n1"), "vectorNetwork", v) : v \in NetworkValues}

\* Rectangle and container nodes with a corner radius of 10 over sizes below,
\* at and above twice that radius.
RadiusSizes == {JInt(0), JInt(4), JInt(20), JInt(100)}
RadiusSizedNodes ==
    {With(With(With(BaseNode(tag, "n1"), "cornerRadius", JInt(10)), "width", w), "height", h) :
     tag \in {"rectangle", "container"}, w \in RadiusSizes, h \in RadiusSizes}

\* Nodes of every recognized kind that bring a border and a stroke width.
BorderObj ==
    JObj([borderWidth |-> JInt(2),
          borderColor |-> JObj([r |-> JInt(255), g |-> JInt(0), b |-> JInt(0), a |-> JInt(1)]),
          borderStyle |-> JStr("solid")])
BorderedNodes ==
    {With(BaseNode(tag, "n1"), "border", BorderObj) : tag \in NodeTags}
    \cup {With(With(BaseNode(tag, "n1"), "border", BorderObj), "strokeWidth", JInt(3)) :
            tag \in NodeTags}

\* Text nodes carrying any subset of the six text-style members.
TextMembers ==
    [textAlign |-> JStr("center"), textAlignVertical |-> JStr("bottom"),
     textDecoration |-> JStr("underline"), fontWeight |-> JInt(700),
     fontFamily |-> JStr("Roboto"), fontSize |-> JFloat(12, 4)]

TextNodes ==
    {[k \in DOMAIN BaseNode("text", "n1") \cup S |->
        IF k \in S THEN TextMembers[k] ELSE BaseNode("text", "n1")[k]] :
     S \in SUBSET DOMAIN TextMembers}

SingleNodes ==
    TextNodes \cup OneMemberNodes \cup DefaultedNodes \cup SizedNodes \cup CornerNodes
    \cup FilledNodes \cup WeightNodes \cup NetworkNodes \cup RadiusSizedNodes
    \cup BorderedNodes

BaseScene ==
    JObj([id |-> JStr("main"), name |-> JStr("Main"), type |-> JStr("scene"),
          children |-> JArr(<<JStr("n1")>>)])

BaseDocument(nodes) ==
    [bitmaps |-> EmptyObj, properties |-> EmptyObj, nodes |-> JObj(nodes),
     scenes |-> JObj([main |-> BaseScene])]

BaseRoot(document) == [version |-> JStr("0.0.1-beta.1+20250303"), document |-> JObj(document)]

\* The file holding the given node objects (a function from keys to objects).
FileOf(nodes) == JObj(BaseRoot(BaseDocument(nodes)))

OneNode(node) == [k \in {"n1"} |-> JObj(node)]

\* Files that differ from a well-formed one-node file in one member of the
\* root, of the document or of the scene, and files that are not JSON objects.
ShapeNode == OneNode(BaseNode("rectangle", "n1"))
RootFields == {"version", "document"}
DocumentFields == {"bitmaps", "properties", "nodes", "scenes", "entry_scene_id"}
SceneFields == {"id", "name", "type", "children", "backgroundColor", "guides", "constraints"}

SceneValueFile(v) ==
    JObj(BaseRoot(With(BaseDocument(ShapeNode), "scenes", JObj([main |-> v]))))
SceneFile(scene) == SceneValueFile(JObj(scene))

\* The file whose "nodes" member maps keys to the given JSON values.
NodesFile(nodes) ==
    JObj(BaseRoot(With(BaseDocument(ShapeNode), "nodes", JObj(nodes))))

ShapeFiles ==
    {InvalidJson, JNull, JArr(<<>>), EmptyObj, FileOf(<<>>), FileOf(ShapeNode)}
    \cup {JObj(With(BaseRoot(BaseDocument(ShapeNode)), k, v)) :
            k \in RootFields, v \in ProbeValues}
    \cup {JObj(Without(BaseRoot(BaseDocument(ShapeNode)), k)) : k \in RootFields}
    \cup {JObj(BaseRoot(With(BaseDocument(ShapeNode), k, v))) :
            k \in DocumentFields, v \in ProbeValues}
    \cup {JObj(BaseRoot(Without(BaseDocument(ShapeNode), k))) : k \in DocumentFields}
    \cup {SceneFile(With(BaseScene.o, k, v)) : k \in SceneFields, v \in ProbeValues}
    \cup {SceneFile(Without(BaseScene.o, k)) : k \in SceneFields}
    \cup {NodesFile([n1 |-> v]) : v \in ProbeValues \ {FourNumbers}}

\* Files that write a struct, or a tagged enum, as a JSON array: the root, the
\* document, the scene, a node, a fill, a color and a vector network.
ArrayOf(o, fields) == JArr([i \in DOMAIN fields |-> IF Has(o, fields[i]) THEN o[fields[i]] ELSE JNull])

ShortRectangle ==
    JArr(<<JStr("rectangle"), JStr("n1"), JStr("node"), JBool(TRUE), JBool(FALSE),
           JFloat(0, 4), JInt(0), JInt(2), JNull, JInt(3), JFloat(4, 4), JInt(10),
           JFloat(20, 2), JArr(<<JStr("solid"), JArr(<<JInt(255), JInt(128), JInt(1), JFloat(0, 4)>>)>>),
           JNull, JNull, JNull>>)

ArrayFiles ==
    {JArr(<<JStr("0.0.1"), JObj(BaseDocument(ShapeNode))>>),
     JArr(<<JStr("0.0.1")>>),
     JArr(<<JStr("0.0.1"), JObj(BaseDocument(ShapeNode)), JNull>>),
     JObj([version |-> JStr("0.0.1"),
           document |-> ArrayOf(BaseDocument(ShapeNode), IODocument_fields)]),
     SceneValueFile(ArrayOf(BaseScene.o, IOScene_fields)),
     SceneValueFile(JArr(<<JStr("main"), JStr("Main"), JStr("scene")>>)),
     NodesFile([n1 |-> ShortRectangle]),
     NodesFile([n1 |-> JArr(SubSeq(ShortRectangle.a, 1, 13))]),
     NodesFile([n1 |-> JArr(<<JStr("sticky-note"), JInt(1)>>)]),
     FileOf(OneNode(With(BaseNode("path", "n1"), "vectorNetwork", JArr(<<>>)))),
     FileOf(OneNode(With(BaseNode("path", "n1"), "vectorNetwork",
         JArr(<<JArr(<<JArr(<<JArr(<<JInt(5), JInt(6)>>)>>)>>)>>))))}

\* Files of up to MaxNodes nodes of mixed kinds, children lists and identifiers.
MemberNodes ==
    {BaseNode(tag, id) : tag \in {"rectangle", "text", "sticky-note"}, id \in Keys}
    \cup {With(BaseNode("container", id), "children", JArr(c)) :
            id \in Keys, c \in {<<>>} \cup {<<JStr(x)>> : x \in Keys}}

MultiFiles == {FileOf([k \in Keys |-> JObj(f[k])]) : f \in [Keys -> MemberNodes]}

Files ==
    {FileOf(OneNode(n)) : n \in SingleNodes} \cup ShapeFiles \cup ArrayFiles \cup MultiFiles

----------------------------------------------------------------------------
(* NodeFactory (crates/grida-canvas/src/node/factory.rs).  id is the string *)
(* of the random Uuid that NodeFactory::id draws for the node.              *)

\* A default box twice as high as it is wide.
DEFAULT_SIZE_tall == [width |-> F32(100), height |-> F32(200)]

DEFAULT_SIZE == [width |-> F32(100), height |-> F32(100)]
DEFAULT_COLOR == <<255, 255, 255, 255>>
DEFAULT_STROKE_COLOR == <<0, 0, 0, 255>>
DEFAULT_STROKE_WIDTH == F32(1)
DEFAULT_STROKE_ALIGN == "Inside"
DEFAULT_OPACITY == F32(1)

\* A solid paint of half opacity.
default_solid_paint_half(color) ==
    [type |-> "Solid", color |-> color, opacity |-> F32(1) \div 2]

default_solid_paint(color) == [type |-> "Solid", color |-> color, opacity |-> F32(1)]

\* FontWeight::default()
FontWeight_default == 400

\* A ratio num/den stands for an f32 factor that is no multiple of 1/8.
Ratio(num, den) == [num |-> num, den |-> den]

create_rectangle_node(id) ==
    [kind |-> "Rectangle",
     id |-> id, name |-> "", active |-> TRUE,
     transform |-> AffineTransform_identity,
     size |-> DEFAULT_SIZE,
     corner_radius |-> RectangularCornerRadius_zero,
     fill |-> default_solid_paint(DEFAULT_COLOR),
     stroke |-> default_solid_paint(DEFAULT_STROKE_COLOR),
     stroke_width |-> DEFAULT_STROKE_WIDTH,
     stroke_align |-> DEFAULT_STROKE_ALIGN,
     stroke_dash_array |-> None,
     opacity |-> DEFAULT_OPACITY,
     blend_mode |-> "Normal",
     effect |-> None]

create_ellipse_node(id) ==
    [kind |-> "Ellipse",
     id |-> id, name |-> "", active |-> TRUE,
     transform |-> AffineTransform_identity,
     size |-> DEFAULT_SIZE,
     fill |-> default_solid_paint(DEFAULT_COLOR),
     stroke |-> default_solid_paint(DEFAULT_STROKE_COLOR),
     stroke_width |-> DEFAULT_STROKE_WIDTH,
     stroke_align |-> DEFAULT_STROKE_ALIGN,
     stroke_dash_array |-> None,
     opacity |-> DEFAULT_OPACITY,
     blend_mode |-> "Normal",
     effect |-> None]

create_line_node(id) ==
    [kind |-> "Line",
     id |-> id, name |-> "", active |-> TRUE,
     transform |-> AffineTransform_identity,
     size |-> [width |-> DEFAULT_SIZE.width, height |-> F32(0)],
     stroke |-> default_solid_paint(DEFAULT_STROKE_COLOR),
     stroke_width |-> DEFAULT_STROKE_WIDTH,
     _data_stroke_align |-> DEFAULT_STROKE_ALIGN,
     stroke_dash_array |-> None,
     opacity |-> DEFAULT_OPACITY,
     blend_mode |-> "Normal"]

create_text_span_node(id) ==
    [kind |-> "TextSpan",
     id |-> id, name |-> "", active |-> TRUE,
     transform |-> AffineTransform_identity,
     size |-> [width |-> DEFAULT_SIZE.width, height |-> F32(20)],
     text |-> "",
     text_style |-> [text_decoration |-> "none",
                     font_family |-> "Arial",
                     font_size |-> F32(16),
                     font_weight |-> FontWeight_default,
                     italic |-> FALSE,
                     letter_spacing |-> None,
                     line_height |-> None,
                     text_transform |-> "none"],
     text_align |-> "left",
     text_align_vertical |-> "top",
     fill |-> default_solid_paint(DEFAULT_STROKE_COLOR),
     stroke |-> None,
     stroke_width |-> None,
     stroke_align |-> DEFAULT_STROKE_ALIGN,
     opacity |-> DEFAULT_OPACITY,
     blend_mode |-> "Normal"]

create_group_node(id) ==
    [kind |-> "Group",
     id |-> id, name |-> "", active |-> TRUE,
     transform |-> AffineTransform_identity,
     children |-> <<>>,
     opacity |-> DEFAULT_OPACITY,
     blend_mode |-> "Normal"]

create_container_node(id) ==
    [kind |-> "Container",
     id |-> id, name |-> "", active |-> TRUE,
     transform |-> AffineTransform_identity,
     size |-> DEFAULT_SIZE,
     corner_radius |-> RectangularCornerRadius_zero,
     children |-> <<>>,
     fill |-> default_solid_paint(DEFAULT_COLOR),
     stroke |-> None,
     stroke_width |-> DEFAULT_STROKE_WIDTH,
     stroke_align |-> DEFAULT_STROKE_ALIGN,
     stroke_dash_array |-> None,
     opacity |-> DEFAULT_OPACITY,
     blend_mode |-> "Normal",
     effect |-> None,
     clip |-> TRUE]

create_path_node(id) ==
    [kind |-> "Path",
     id |-> id, name |-> "", active |-> TRUE,
     transform |-> AffineTransform_identity,
     fill |-> default_solid_paint(DEFAULT_COLOR),
     data |-> <<>>,
     stroke |-> default_solid_paint(DEFAULT_STROKE_COLOR),
     stroke_width |-> DEFAULT_STROKE_WIDTH,
     stroke_align |-> DEFAULT_STROKE_ALIGN,
     stroke_dash_array |-> None,
     opacity |-> DEFAULT_OPACITY,
     blend_mode |-> "Normal",
     effect |-> None]

create_regular_polygon_node(id) ==
    [kind |-> "RegularPolygon",
     id |-> id, name |-> "", active |-> TRUE,
     transform |-> AffineTransform_identity,
     size |-> DEFAULT_SIZE,
     point_count |-> 3,
     corner_radius |-> F32(0),
     fill |-> default_solid_paint(DEFAULT_COLOR),
     stroke |-> default_solid_paint(DEFAULT_STROKE_COLOR),
     stroke_width |-> DEFAULT_STROKE_WIDTH,
     stroke_align |-> DEFAULT_STROKE_ALIGN,
     stroke_dash_array |-> None,
     opacity |-> DEFAULT_OPACITY,
     blend_mode |-> "Normal",
     effect |-> None]

create_regular_star_polygon_node(id) ==
    [kind |-> "RegularStarPolygon",
     id |-> id, name |-> "", active |-> TRUE,
     transform |-> AffineTransform_identity,
     size |-> DEFAULT_SIZE,
     point_count |-> 5,
     inner_radius |-> Ratio(2, 5),
     corner_radius |-> F32(0),
     fill |-> default_solid_paint(DEFAULT_COLOR),
     stroke |-> default_solid_paint(DEFAULT_STROKE_COLOR),
     stroke_width |-> DEFAULT_STROKE_WIDTH,
     stroke_align |-> DEFAULT_STROKE_ALIGN,
     stroke_dash_array |-> None,
     opacity |-> DEFAULT_OPACITY,
     blend_mode |-> "Normal",
     effect |-> None]

create_polygon_node(id) ==
    [kind |-> "Polygon",
     id |-> id, name |-> "", active |-> TRUE,
     transform |-> AffineTransform_identity,
     points |-> <<>>,
     corner_radius |-> F32(0),
     fill |-> default_solid_paint(DEFAULT_COLOR),
     stroke |-> default_solid_paint(DEFAULT_STROKE_COLOR),
     stroke_width |-> DEFAULT_STROKE_WIDTH,
     stroke_align |-> DEFAULT_STROKE_ALIGN,
     stroke_dash_array |-> None,
     opacity |-> DEFAULT_OPACITY,
     blend_mode |-> "Normal",
     effect |-> None]

create_image_node(id) ==
    [kind |-> "Image",
     id |-> id, name |-> "", active |-> TRUE,
     transform |-> AffineTransform_identity,
     size |-> DEFAULT_SIZE,
     corner_radius |-> RectangularCornerRadius_zero,
     fill |-> default_solid_paint(DEFAULT_COLOR),
     stroke |-> default_solid_paint(DEFAULT_STROKE_COLOR),
     stroke_width |-> DEFAULT_STROKE_WIDTH,
     stroke_align |-> DEFAULT_STROKE_ALIGN,
     stroke_dash_array |-> None,
     opacity |-> DEFAULT_OPACITY,
     blend_mode |-> "Normal",
     effect |-> None,
     _ref |-> ""]

\* The create_* operations of NodeFactory, by the kind of node they build.
FactoryKinds ==
    {"Rectangle", "Ellipse", "Line", "TextSpan", "Group", "Container", "Path",
     "RegularPolygon", "RegularStarPolygon", "Polygon", "Image"}

NodeFactory_create(kind, id) ==
    CASE kind = "Rectangle" -> create_rectangle_node(id)
      [] kind = "Ellipse" -> create_ellipse_node(id)
      [] kind = "Line" -> create_line_node(id)
      [] kind = "TextSpan" -> create_text_span_node(id)
      [] kind = "Group" -> create_group_node(id)
      [] kind = "Container" -> create_container_node(id)
      [] kind = "Path" -> create_path_node(id)
      [] kind = "RegularPolygon" -> create_regular_polygon_node(id)
      [] kind = "RegularStarPolygon" -> create_regular_star_polygon_node(id)
      [] kind = "Polygon" -> create_polygon_node(id)
      [] kind = "Image" -> create_image_node(id)

----------------------------------------------------------------------------
(* Derived geometry and accessors of the node schema                        *)
(* (crates/grida-canvas/src/node/schema.rs).                                *)
(*                                                                          *)
(* An angle is kept exact, as the ratio num/den it bears to pi, and a       *)
(* coordinate c + r * cos(angle) or c + r * sin(angle) is kept as the term  *)
(* [c, r, of, angle]: the cosine and the sine are not evaluated.            *)

RatioPlus(p, q) == Ratio(p.num * q.den + q.num * p.den, p.den * q.den)
RatioTimes(p, k) == Ratio(p.num * k, p.den)

\* x / 2.0 on an f32 in eighths; exact on the sizes the model uses.
f32_half(x) == x \div 2
f32_min(x, y) == IF x <= y THEN x ELSE y
\* x * q for a factor q kept as a ratio; exact on the values the model uses.
f32_times(x, q) == (x * q.num) \div q.den

Point(cx, cy, r, theta) ==
    [x |-> [c |-> cx, r |-> r, of |-> "cos", angle |-> theta],
     y |-> [c |-> cy, r |-> r, of |-> "sin", angle |-> theta]]

\* The hand-over that resets the opacity and drops the effect.
PolygonNode_of_reset(self, points) ==
    [kind |-> "Polygon",
     id |-> self.id, name |-> self.name, active |-> self.active,
     transform |-> self.transform,
     points |-> points,
     corner_radius |-> self.corner_radius,
     fill |-> self.fill,
     stroke |-> self.stroke,
     stroke_width |-> self.stroke_width,
     stroke_align |-> self.stroke_align,
     opacity |-> F32(1),
     blend_mode |-> self.blend_mode,
     effect |-> None,
     stroke_dash_array |-> self.stroke_dash_array]

\* The fields a regular (star) polygon hands over to the PolygonNode.
PolygonNode_of(self, points) ==
    [kind |-> "Polygon",
     id |-> self.id, name |-> self.name, active |-> self.active,
     transform |-> self.transform,
     points |-> points,
     corner_radius |-> self.corner_radius,
     fill |-> self.fill,
     stroke |-> self.stroke,
     stroke_width |-> self.stroke_width,
     stroke_align |-> self.stroke_align,
     opacity |-> self.opacity,
     blend_mode |-> self.blend_mode,
     effect |-> self.effect,
     stroke_dash_array |-> self.stroke_dash_array]

\* The offset that puts a vertex at the top for every point count.
angle_offset_top(point_count) == Ratio(-1, 2)

\* The angle offset of a regular polygon of the given point count.
angle_offset(point_count) ==
    IF point_count % 2 = 0 THEN Ratio(1, point_count) ELSE Ratio(-1, 2)

\* The radius of the circle around the bounding box instead of inside it.
polygon_radius_outside(w, h) == f32_half(IF w >= h THEN w ELSE h)

\* let r = w.min(h) / 2.0
polygon_radius(w, h) == f32_half(f32_min(w, h))

\* RegularPolygonNode::to_polygon
RegularPolygonNode_to_polygon(self) ==
    LET w == self.size.width
        h == self.size.height
        cx == f32_half(w)
        cy == f32_half(h)
        r == polygon_radius(w, h)
        points == [j \in 1..self.point_count |->
                     LET i == j - 1
                         theta == RatioPlus(RatioTimes(Ratio(i, self.point_count), 2),
                                            angle_offset(self.point_count))
                     IN Point(cx, cy, r, theta)]
    IN PolygonNode_of(self, points)

\* The star's radius choice with the inner radius on the even indices.
star_radius_inner_first(i, outer_r, inner_r) == IF i % 2 = 0 THEN inner_r ELSE outer_r

\* let r = if i % 2 == 0 { outer_r } else { inner_r }
star_radius(i, outer_r, inner_r) == IF i % 2 = 0 THEN outer_r ELSE inner_r

\* RegularStarPolygonNode::to_polygon
RegularStarPolygonNode_to_polygon(self) ==
    LET w == self.size.width
        h == self.size.height
        cx == f32_half(w)
        cy == f32_half(h)
        outer_r == f32_min(cx, cy)
        inner_r == f32_times(outer_r, self.inner_radius)
        step == Ratio(1, self.point_count)
        start_angle == Ratio(-1, 2)
        points == [j \in 1..(self.point_count * 2) |->
                     LET i == j - 1
                         angle == RatioPlus(start_angle, RatioTimes(step, i))
                     IN Point(cx, cy, star_radius(i, outer_r, inner_r), angle)]
    IN PolygonNode_of(self, points)

\* The accessor handing out the stored alignment.
LineNode_get_stroke_align_stored(self) == self._data_stroke_align

\* LineNode::get_stroke_align
LineNode_get_stroke_align(self) == "Center"

StrokeAligns == {"Inside", "Center", "Outside"}

RectangularCornerRadius_is_zero(self) ==
    /\ f32_eq(self.tl, Finite(0))
    /\ f32_eq(self.tr, Finite(0))
    /\ f32_eq(self.bl, Finite(0))
    /\ f32_eq(self.br, Finite(0))

RectangularCornerRadius_is_uniform(self) ==
    /\ f32_eq(self.tl, self.tr)
    /\ f32_eq(self.tl, self.bl)
    /\ f32_eq(self.tl, self.br)

----------------------------------------------------------------------------
(* The state machine. *)

NoFile == [t |-> "none"]
NoCall == [called |-> FALSE, arg |-> 0, panic |-> FALSE, value |-> 0]
NoNode == [kind |-> "none"]
NoResult == [op |-> "none"]

\* The threads ingesting documents side by side, and the locals of a thread
\* that has not called parse yet.
Threads == {1, 2}
IdleJob == [pc |-> "idle", file |-> NoFile, parsed |-> Err, out |-> <<>>]

Init ==
    /\ pc = "idle"
    /\ file = NoFile
    /\ parsed = Err
    /\ out = <<>>
    /\ fw = NoCall
    /\ authored = NoNode
    /\ res = NoResult
    /\ jobs = [t \in Threads |-> IdleJob]

\* parse(file): the caller hands a file to parse and keeps the result.
Parse(f) ==
    /\ pc = "idle"
    /\ file' = f
    /\ parsed' = parse(f)
    /\ pc' = IF parse(f).ok THEN "parsed" ELSE "failed"
    /\ UNCHANGED <<out, fw, authored, res, jobs>>

\* The nodes of the parsed document not converted yet.
Pending == DOMAIN parsed.v.document.nodes \ DOMAIN out

\* Node::from(io_node) on one node of the parsed document.
Convert(k) ==
    /\ pc = "parsed"
    /\ k \in Pending
    /\ ~Node_from_panics(parsed.v.document.nodes[k])
    /\ out' = With(out, k, Node_from(parsed.v.document.nodes[k]))
    /\ UNCHANGED <<pc, file, parsed, fw, authored, res, jobs>>

\* Node::from(io_node) aborting on an index out of bounds.
ConvertPanics(k) ==
    /\ pc = "parsed"
    /\ k \in Pending
    /\ Node_from_panics(parsed.v.document.nodes[k])
    /\ pc' = "panicked"
    /\ UNCHANGED <<file, parsed, out, fw, authored, res, jobs>>

\* FontWeight::new(value) called by any client of the schema.
NewFontWeight(value) ==
    /\ LET r == FontWeight_new(value)
       IN fw' = [called |-> TRUE, arg |-> value, panic |-> r.panic, value |-> r.value]
    /\ UNCHANGED <<pc, file, parsed, out, authored, res, jobs>>

Next ==
    \/ \E f \in Files : Parse(f)
    \/ \E k \in Keys : Convert(k)
    \/ \E k \in Keys : ConvertPanics(k)

Spec == Init /\ [][Next]_vars

NextFontWeight == \E value \in 0..MaxWeightArg : NewFontWeight(value)

SpecFontWeight == Init /\ [][NextFontWeight]_vars

\* The identifiers NodeFactory::id may draw.
FactoryIds == {"uuid-1", "uuid-2"}

\* The sizes, point counts and inner radii a client gives a regular polygon
\* or star, and the f32 values it asks a uniform corner radius for.
MaxPoints == 6
MaxRadiusArg == 4
ShapeSizes == {F32(0), F32(20), F32(60), F32(100)}
InnerRadii == {Ratio(0, 1), Ratio(2, 5), Ratio(1, 2), Ratio(1, 1)}
\* A style that differs from the factory's in every base and style field.
Restyled ==
    [name |-> "badge", active |-> FALSE,
     transform |-> AffineTransform_new(F32(3), F32(4), F32(0)),
     corner_radius |-> F32(2),
     fill |-> [type |-> "Solid", color |-> <<255, 0, 0, 255>>, opacity |-> F32(1) \div 2],
     stroke |-> [type |-> "Solid", color |-> <<0, 0, 255, 255>>, opacity |-> F32(1)],
     stroke_width |-> F32(3),
     stroke_align |-> "Outside",
     stroke_dash_array |-> Some(<<F32(4), F32(2)>>),
     opacity |-> F32(1) \div 4,
     blend_mode |-> "Multiply",
     effect |-> Some([type |-> "GaussianBlur", radius |-> F32(5)])]
Styles == {Restyled, [opacity |-> F32(0), effect |-> None]}
RadiusArgs ==
    {Finite(e) : e \in -MaxRadiusArg..MaxRadiusArg}
    \cup {NaN, NegZero, Infinity(1), Infinity(-1)}

\* NodeFactory::create_*_node
Create(kind, id) ==
    /\ authored' = NodeFactory_create(kind, id)
    /\ res' = [op |-> "create", value |-> NodeFactory_create(kind, id)]
    /\ UNCHANGED <<pc, file, parsed, out, fw, jobs>>

\* A client assigning the public _data_stroke_align field of its LineNode.
SetStrokeAlign(align) ==
    /\ authored.kind = "Line"
    /\ authored' = [authored EXCEPT !._data_stroke_align = align]
    /\ res' = NoResult
    /\ UNCHANGED <<pc, file, parsed, out, fw, jobs>>

\* LineNode::get_stroke_align(&self)
GetStrokeAlign ==
    /\ authored.kind = "Line"
    /\ res' = [op |-> "get_stroke_align", self |-> authored,
               value |-> LineNode_get_stroke_align(authored)]
    /\ UNCHANGED <<pc, file, parsed, out, fw, authored, jobs>>

\* A client assigning the public point_count and size fields of its regular
\* polygon or star.
SetShape(point_count, width, height) ==
    /\ authored.kind \in {"RegularPolygon", "RegularStarPolygon"}
    /\ authored' = [authored EXCEPT !.point_count = point_count,
                            !.size = [width |-> width, height |-> height]]
    /\ res' = NoResult
    /\ UNCHANGED <<pc, file, parsed, out, fw, jobs>>

\* A client assigning the public base and style fields of its regular polygon
\* or star.
SetStyle(style) ==
    /\ authored.kind \in {"RegularPolygon", "RegularStarPolygon"}
    /\ authored' = [f \in DOMAIN authored |->
                      IF f \in DOMAIN style THEN style[f] ELSE authored[f]]
    /\ res' = NoResult
    /\ UNCHANGED <<pc, file, parsed, out, fw, jobs>>

\* A client assigning the public inner_radius field of its star.
SetInnerRadius(inner_radius) ==
    /\ authored.kind = "RegularStarPolygon"
    /\ authored' = [authored EXCEPT !.inner_radius = inner_radius]
    /\ res' = NoResult
    /\ UNCHANGED <<pc, file, parsed, out, fw, jobs>>

\* RegularPolygonNode::to_polygon(&self)
ToPolygon ==
    /\ authored.kind = "RegularPolygon"
    /\ res' = [op |-> "to_polygon", self |-> authored,
               value |-> RegularPolygonNode_to_polygon(authored)]
    /\ UNCHANGED <<pc, file, parsed, out, fw, authored, jobs>>

\* RegularStarPolygonNode::to_polygon(&self)
StarToPolygon ==
    /\ authored.kind = "RegularStarPolygon"
    /\ res' = [op |-> "to_polygon", self |-> authored,
               value |-> RegularStarPolygonNode_to_polygon(authored)]
    /\ UNCHANGED <<pc, file, parsed, out, fw, authored, jobs>>

\* RectangularCornerRadius::all(value) and its two predicates.
CornerRadiusAll(value) ==
    /\ LET r == RectangularCornerRadius_all(value)
       IN res' = [op |-> "all", arg |-> value, value |-> r,
                  is_zero |-> RectangularCornerRadius_is_zero(r),
                  is_uniform |-> RectangularCornerRadius_is_uniform(r)]
    /\ UNCHANGED <<pc, file, parsed, out, fw, authored, jobs>>

NextNodes ==
    \/ \E kind \in FactoryKinds, id \in FactoryIds : Create(kind, id)
    \/ \E align \in StrokeAligns : SetStrokeAlign(align)
    \/ GetStrokeAlign
    \/ \E n \in 0..MaxPoints, w \in ShapeSizes, h \in ShapeSizes : SetShape(n, w, h)
    \/ \E style \in Styles : SetStyle(style)
    \/ \E q \in InnerRadii : SetInnerRadius(q)
    \/ ToPolygon
    \/ StarToPolygon
    \/ \E v \in RadiusArgs : CornerRadiusAll(v)

SpecNodes == Init /\ [][NextNodes]_vars

\* The documents two threads ingest side by side: one that is no JSON, one
\* that lacks its document, one-node documents of a recognized and of an
\* unrecognized kind, a path whose segment names a vertex out of range, and
\* a two-node document.
PairFiles ==
    {InvalidJson, EmptyObj, FileOf(ShapeNode),
     FileOf(OneNode(BaseNode("sticky-note", "n1"))),
     FileOf(OneNode(With(BaseNode("text", "n1"), "opacity", JFloat(0, 4)))),
     FileOf(OneNode(With(BaseNode("path", "n1"), "vectorNetwork",
         JObj([vertices |-> JArr(<<VertexObj(5, 6)>>),
               segments |-> JArr(<<SegmentObj(0, 1)>>)])))),
     FileOf([k \in {"n1", "n2"} |->
         IF k = "n1" THEN JObj(With(BaseNode("container", "n1"), "children", JArr(<<JStr("n2")>>)))
         ELSE JObj(BaseNode("ellipse", "n2"))])}

\* The parse whose result is kept where every thread reads it.
ParseOn_shared(t, f) ==
    /\ jobs[t].pc = "idle"
    /\ jobs' = [u \in Threads |->
                  IF u = t
                  THEN [pc |-> IF parse(f).ok THEN "parsed" ELSE "failed",
                        file |-> f, parsed |-> parse(f), out |-> <<>>]
                  ELSE [jobs[u] EXCEPT !.parsed = parse(f)]]
    /\ UNCHANGED <<pc, file, parsed, out, fw, authored, res>>

\* parse(file) called on thread t: the text and the result are locals of the
\* caller.
ParseOn(t, f) ==
    /\ jobs[t].pc = "idle"
    /\ jobs' = [jobs EXCEPT ![t] =
                  [pc |-> IF parse(f).ok THEN "parsed" ELSE "failed",
                   file |-> f, parsed |-> parse(f), out |-> <<>>]]
    /\ UNCHANGED <<pc, file, parsed, out, fw, authored, res>>

\* Node::from(io_node) on thread t, on one node of the document it parsed.
ConvertOn(t, k) ==
    /\ jobs[t].pc = "parsed"
    /\ k \in DOMAIN jobs[t].parsed.v.document.nodes \ DOMAIN jobs[t].out
    /\ ~Node_from_panics(jobs[t].parsed.v.document.nodes[k])
    /\ jobs' = [jobs EXCEPT ![t].out =
                  With(jobs[t].out, k, Node_from(jobs[t].parsed.v.document.nodes[k]))]
    /\ UNCHANGED <<pc, file, parsed, out, fw, authored, res>>

\* Node::from(io_node) aborting thread t on an index out of bounds; the panic
\* unwinds the thread that raised it.
ConvertPanicsOn(t, k) ==
    /\ jobs[t].pc = "parsed"
    /\ k \in DOMAIN jobs[t].parsed.v.document.nodes \ DOMAIN jobs[t].out
    /\ Node_from_panics(jobs[t].parsed.v.document.nodes[k])
    /\ jobs' = [jobs EXCEPT ![t].pc = "panicked"]
    /\ UNCHANGED <<pc, file, parsed, out, fw, authored, res>>

NextPair ==
    \/ \E t \in Threads, f \in PairFiles : ParseOn(t, f)
    \/ \E t \in Threads, k \in Keys : ConvertOn(t, k)
    \/ \E t \in Threads, k \in Keys : ConvertPanicsOn(t, k)

SpecPair == Init /\ [][NextPair]_vars

----------------------------------------------------------------------------
(* Observations of the source file the properties are stated over. *)

TypedMember(o, k, t) == Has(o, k) /\ o[k].t = t

\* The file is an object holding a document object holding a nodes object.
HasNodes(f) ==
    /\ f.t = "object"
    /\ TypedMember(f.o, "document", "object")
    /\ TypedMember(f.o.document.o, "nodes", "object")

SrcNodes == file.o.document.o.nodes.o

\* The file f with its node object under key k replaced by the object n.
WithNode(f, k, n) ==
    JObj(With(f.o, "document",
        JObj(With(f.o.document.o, "nodes",
            JObj(With(f.o.document.o.nodes.o, k, JObj(n)))))))

\* The file f without the node under key k.
WithoutNode(f, k) ==
    JObj(With(f.o, "document",
        JObj(With(f.o.document.o, "nodes",
            JObj(Without(f.o.document.o.nodes.o, k))))))

IsTagged(v) == v.t = "object" /\ TypedMember(v.o, "type", "string")
HasTag(v, tags) == IsTagged(v) /\ v.o.type.s \in tags
Ingested == pc \in {"parsed", "failed", "panicked"}
IONodeOf(k) == parsed.v.document.nodes[k]

----------------------------------------------------------------------------
(* Properties. *)

\* C1: in a file whose remaining content parses, a node object whose "type"
\* tag is not a recognized one never makes parse fail; it deserializes to
\* IONode::Unknown and converts to an Error node of size 100x100, opacity
\* 1.0, active = false and a non-empty diagnostic, whatever other members
\* the node object carries.
C1_UnknownKindBecomesErrorNode ==
    (Ingested /\ HasNodes(file)) =>
        \A k \in DOMAIN SrcNodes :
            (IsTagged(SrcNodes[k]) /\ SrcNodes[k].o.type.s \notin NodeTags) =>
                /\ parse(WithoutNode(file, k)).ok => parsed.ok
                /\ parsed.ok => IONodeOf(k).variant = "Unknown"
                /\ k \in DOMAIN out =>
                    /\ out[k].kind = "Error"
                    /\ out[k].size = [width |-> 100 * 8, height |-> 100 * 8]
                    /\ out[k].opacity = 8
                    /\ out[k].active = FALSE
                    /\ out[k].error # ""

\* C1 witness: a converted Error node whose source object has an unknown tag,
\* no id and a non-numeric width.
C1_Witness ==
    /\ pc = "parsed"
    /\ HasNodes(file)
    /\ \E k \in DOMAIN out :
        /\ out[k].kind = "Error"
        /\ HasTag(SrcNodes[k], {"sticky-note"})
        /\ ~Has(SrcNodes[k].o, "id")

\* C2: a rectangle node whose "width" is not a number (its other content
\* being acceptable) is ingested without error and converts to a Rectangle
\* node of width 0.0.
C2_RectangleNonNumericWidthIsZero ==
    (Ingested /\ HasNodes(file)) =>
        \A k \in DOMAIN SrcNodes :
            ( /\ HasTag(SrcNodes[k], {"rectangle"})
              /\ Has(SrcNodes[k].o, "width")
              /\ ~IsNumber(SrcNodes[k].o.width)
              /\ parse(WithNode(file, k, With(SrcNodes[k].o, "width", JInt(0)))).ok ) =>
                /\ parsed.ok
                /\ k \in DOMAIN out =>
                    (out[k].kind = "Rectangle" /\ out[k].size.width = 0)

\* The f32 a JSON value stands for when it is a number, else 0.0 (eighths).
NumberOrZero(v) == IF v.t = "number" THEN (IF v.int THEN 8 * v.n ELSE v.n) ELSE 0

\* C3: converting a container or text node, width and height each equal the
\* source value when it is a JSON number and 0.0 for every other present
\* value, and the value's shape never makes the ingestion fail.
C3_SizeDecoding ==
    (Ingested /\ HasNodes(file)) =>
        \A k \in DOMAIN SrcNodes :
            ( /\ HasTag(SrcNodes[k], {"container", "text"})
              /\ Has(SrcNodes[k].o, "width")
              /\ Has(SrcNodes[k].o, "height") ) =>
                /\ parse(WithNode(file, k,
                        With(With(SrcNodes[k].o, "width", JInt(0)), "height", JInt(0)))).ok
                    => parsed.ok
                /\ k \in DOMAIN out =>
                    /\ out[k].size.width = NumberOrZero(SrcNodes[k].o.width)
                    /\ out[k].size.height = NumberOrZero(SrcNodes[k].o.height)

\* C3 witness: a converted container whose width is a string keyword and
\* whose height is a number.
C3_Witness ==
    /\ pc = "parsed"
    /\ HasNodes(file)
    /\ \E k \in DOMAIN out :
        /\ out[k].kind = "Container"
        /\ HasTag(SrcNodes[k], {"container"})
        /\ SrcNodes[k].o.width = JStr("fill")
        /\ SrcNodes[k].o.height = JFloat(2, 4)
        /\ out[k].size = [width |-> 0, height |-> 20]

\* A value that is neither a JSON object nor a JSON array (the marker of text
\* that is not JSON included): for a struct-valued key, a wrong JSON type.
NotStructShaped(v) == v.t \notin {"object", "array"}

\* A required member of a scene, or of a node of a recognized kind, is absent
\* or of the wrong JSON type.
SceneBroken(v) ==
    \/ NotStructShaped(v)
    \/ /\ v.t = "object"
       /\ \/ \E k \in {"id", "name", "type"} : ~TypedMember(v.o, k, "string")
          \/ ~TypedMember(v.o, "children", "array")

NodeBroken(v) ==
    /\ HasTag(v, NodeTags)
    /\ \/ \E k \in {"id", "name"} : ~TypedMember(v.o, k, "string")
       \/ \E k \in {"left", "top"} : ~TypedMember(v.o, k, "number")

DocumentBroken(v) ==
    \/ NotStructShaped(v)
    \/ /\ v.t = "object"
       /\ IF \E k \in {"bitmaps", "properties", "nodes", "scenes"} :
                 ~TypedMember(v.o, k, "object")
          THEN TRUE
          ELSE \/ \E k \in DOMAIN v.o.scenes.o : SceneBroken(v.o.scenes.o[k])
               \/ \E k \in DOMAIN v.o.nodes.o : NodeBroken(v.o.nodes.o[k])

\* The file is not valid JSON, or a required key is absent or of the wrong
\* JSON type.  For a key that holds a struct the wrong types are the scalar
\* ones; a struct written as an array of its members is left to AsMap.
StructurallyBroken(f) ==
    \/ NotStructShaped(f)
    \/ /\ f.t = "object"
       /\ IF ~TypedMember(f.o, "version", "string") \/ ~Has(f.o, "document")
          THEN TRUE
          ELSE DocumentBroken(f.o.document)

ExpectedRadius(o) ==
    IF ~Has(o, "cornerRadius") THEN None
    ELSE LET v == o.cornerRadius
         IN IF v.t = "number"
            THEN Some([tl |-> NumberOrZero(v), tr |-> NumberOrZero(v),
                       bl |-> NumberOrZero(v), br |-> NumberOrZero(v)])
            ELSE IF v.t = "array" /\ Len(v.a) = 4
            THEN Some([tl |-> NumberOrZero(v.a[1]), tr |-> NumberOrZero(v.a[2]),
                       bl |-> NumberOrZero(v.a[3]), br |-> NumberOrZero(v.a[4])])
            ELSE None

\* C5: corner-radius decoding never raises an error; a number v decodes to
\* Some with all four corners v, an array of exactly 4 elements to Some of
\* {tl, tr, bl, br} taken from elements 0, 1, 2, 3 (a non-numeric element
\* counting as 0.0), and an array of another length, any other shape, null
\* and an absent member all decode to None.
C5_CornerRadiusDecoding ==
    (Ingested /\ HasNodes(file)) =>
        \A k \in DOMAIN SrcNodes :
            HasTag(SrcNodes[k], {"rectangle", "container"}) =>
                /\ parse(WithNode(file, k, Without(SrcNodes[k].o, "cornerRadius"))).ok
                    => parsed.ok
                /\ parsed.ok => IONodeOf(k).corner_radius = ExpectedRadius(SrcNodes[k].o)

\* C5 witness: a parsed rectangle whose cornerRadius is [1, 2, 3, 4].
C5_Witness ==
    /\ pc = "parsed"
    /\ HasNodes(file)
    /\ \E k \in DOMAIN SrcNodes :
        /\ HasTag(SrcNodes[k], {"rectangle"})
        /\ Has(SrcNodes[k].o, "cornerRadius")
        /\ SrcNodes[k].o.cornerRadius = FourNumbers
        /\ IONodeOf(k).corner_radius = Some([tl |-> 8, tr |-> 16, bl |-> 24, br |-> 32])

\* C6: for every recognized node kind, each of active, locked, opacity,
\* rotation and zIndex is its default (true, false, 1.0, 0.0, 0) exactly when
\* the member is absent from the source object and the source value
\* otherwise, each member independently of the others.
C6_FieldDefaults ==
    (pc = "parsed" /\ HasNodes(file)) =>
        \A k \in DOMAIN SrcNodes :
            HasTag(SrcNodes[k], NodeTags) =>
                LET o == SrcNodes[k].o
                    n == IONodeOf(k)
                IN /\ n.active = (IF Has(o, "active") THEN o.active.b ELSE TRUE)
                   /\ n.locked = (IF Has(o, "locked") THEN o.locked.b ELSE FALSE)
                   /\ n.opacity = (IF Has(o, "opacity") THEN NumberOrZero(o.opacity) ELSE 8)
                   /\ n.rotation = (IF Has(o, "rotation") THEN NumberOrZero(o.rotation) ELSE 0)
                   /\ n.z_index = (IF Has(o, "zIndex") THEN o.zIndex.n ELSE 0)

\* C6 witness: a parsed container that carries opacity and zIndex but none of
\* active, locked and rotation.
C6_Witness ==
    /\ pc = "parsed"
    /\ HasNodes(file)
    /\ \E k \in DOMAIN SrcNodes :
        /\ HasTag(SrcNodes[k], {"container"})
        /\ Has(SrcNodes[k].o, "opacity") /\ Has(SrcNodes[k].o, "zIndex")
        /\ ~Has(SrcNodes[k].o, "active")
        /\ ~Has(SrcNodes[k].o, "locked")
        /\ ~Has(SrcNodes[k].o, "rotation")
        /\ IONodeOf(k).opacity = 4 /\ IONodeOf(k).z_index = -2
        /\ IONodeOf(k).active /\ ~IONodeOf(k).locked /\ IONodeOf(k).rotation = 0

\* C7: every converted node has id() equal to the identifier its node object
\* carries in the source file, for every node kind including the placeholder
\* of an unrecognized kind.
C7_IdentifiersPreserved ==
    (pc = "parsed" /\ HasNodes(file)) =>
        \A k \in DOMAIN out :
            (IsTagged(SrcNodes[k]) /\ TypedMember(SrcNodes[k].o, "id", "string")) =>
                out[k].id = SrcNodes[k].o.id.s

\* C8: every TextSpan node the ingestion produces has a font weight within
\* [1, 1000].
C8_IngestedFontWeightInRange ==
    \A k \in DOMAIN out :
        out[k].kind = "TextSpan" =>
            (out[k].text_style.font_weight >= 1 /\ out[k].text_style.font_weight <= 1000)

\* C9: FontWeight::new(v) panics exactly when v < 1 or v > 1000, and for every
\* v in [1, 1000] returns a FontWeight whose value() is v.
C9_FontWeightNew ==
    fw.called =>
        /\ fw.panic <=> (fw.arg < 1 \/ fw.arg > 1000)
        /\ ~fw.panic => fw.value = fw.arg

\* C9 witness: FontWeight::new(1000) returned.
C9_Witness == fw.called /\ fw.arg = 1000 /\ ~fw.panic /\ fw.value = 1000

TransparentBlack == [type |-> "Solid", color |-> <<0, 0, 0, 0>>, opacity |-> 8]

\* C10: a Solid fill with a color yields Solid paint with that color's r, g,
\* b, its alpha scaled from [0, 1] to 0..255 (truncated), and opacity 1.0; a
\* Solid fill without color and an absent fill yield Solid paint of color
\* (0, 0, 0, 0) and opacity 1.0.
C10_SolidFillToPaint ==
    (pc = "parsed" /\ HasNodes(file)) =>
        \A k \in DOMAIN out :
            HasTag(SrcNodes[k], NodeTags) =>
                LET o == SrcNodes[k].o
                    p == out[k].fill
                IN IF ~OptPresent(o, "fill") THEN p = TransparentBlack
                   ELSE IF ~HasTag(o.fill, {"solid"}) THEN TRUE
                   ELSE IF ~OptPresent(o.fill.o, "color") THEN p = TransparentBlack
                   ELSE IF o.fill.o.color.t # "object" THEN TRUE
                   ELSE LET c == o.fill.o.color.o
                            a == NumberOrZero(c.a)
                        IN /\ p.type = "Solid"
                           /\ p.opacity = 8
                           /\ p.color[1] = c.r.n /\ p.color[2] = c.g.n /\ p.color[3] = c.b.n
                           /\ (a >= 0 /\ a <= 8) =>
                                /\ p.color[4] \in 0..255
                                /\ 8 * p.color[4] <= 255 * a
                                /\ 255 * a < 8 * (p.color[4] + 1)

\* C10 witness: a converted node whose solid fill has alpha 0.5, scaled to 127.
C10_Witness ==
    /\ pc = "parsed"
    /\ HasNodes(file)
    /\ \E k \in DOMAIN out :
        /\ HasTag(SrcNodes[k], NodeTags)
        /\ OptPresent(SrcNodes[k].o, "fill")
        /\ SrcNodes[k].o.fill = SolidFill(255, 128, 1, JFloat(0, 4))
        /\ out[k].fill = [type |-> "Solid", color |-> <<255, 128, 1, 127>>, opacity |-> 8]

\* The alpha byte out is the f32 alpha a (eighths, within [0, 1]) times 255,
\* truncated.
AlphaScaled(a, byte) ==
    (a >= 0 /\ a <= 8) =>
        /\ byte \in 0..255
        /\ 8 * byte <= 255 * a
        /\ 255 * a < 8 * (byte + 1)

GradientTags == {"linear_gradient", "radial_gradient"}

\* A gradient fill written as an object whose stops and their colors are
\* objects too.
IsGradientObject(v) ==
    /\ HasTag(v, GradientTags)
    /\ TypedMember(v.o, "stops", "array")
    /\ \A i \in DOMAIN v.o.stops.a :
          /\ v.o.stops.a[i].t = "object"
          /\ TypedMember(v.o.stops.a[i].o, "color", "object")

\* The rows of a 2x3 JSON matrix as f32 values.
MatrixRows(v) == [i \in 1..2 |-> [j \in 1..3 |-> NumberOrZero(v.a[i].a[j])]]

\* C11: a linear (radial) gradient fill converts to LinearGradient
\* (RadialGradient) paint with as many stops as the source, stop i keeping the
\* offset and color of source stop i; the transform is the source matrix when
\* present and the identity when absent, and leaving the transform out never
\* makes the ingestion fail.
C11_GradientFillToPaint ==
    (Ingested /\ HasNodes(file)) =>
        \A k \in DOMAIN SrcNodes :
            ( /\ HasTag(SrcNodes[k], NodeTags)
              /\ OptPresent(SrcNodes[k].o, "fill")
              /\ IsGradientObject(SrcNodes[k].o.fill) ) =>
                LET o == SrcNodes[k].o
                    g == o.fill.o
                IN /\ parse(WithNode(file, k,
                          With(o, "fill", JObj(With(g, "transform", IdentityRows))))).ok
                      => parsed.ok
                   /\ k \in DOMAIN out =>
                        LET p == out[k].fill
                        IN /\ p.type = (IF g.type.s = "linear_gradient"
                                        THEN "LinearGradient" ELSE "RadialGradient")
                           /\ Len(p.stops) = Len(g.stops.a)
                           /\ \A i \in DOMAIN g.stops.a :
                                LET s == g.stops.a[i].o
                                    c == s.color.o
                                IN /\ p.stops[i].offset = NumberOrZero(s.offset)
                                   /\ p.stops[i].color[1] = c.r.n
                                   /\ p.stops[i].color[2] = c.g.n
                                   /\ p.stops[i].color[3] = c.b.n
                                   /\ AlphaScaled(NumberOrZero(c.a), p.stops[i].color[4])
                           /\ p.transform =
                                (IF OptPresent(g, "transform")
                                 THEN [ctor |-> "matrix", matrix |-> MatrixRows(g.transform)]
                                 ELSE [ctor |-> "identity"])

\* C11 witness: a converted node whose radial gradient fill has two distinct
\* stops and no transform.
C11_Witness ==
    /\ pc = "parsed"
    /\ HasNodes(file)
    /\ \E k \in DOMAIN out :
        /\ HasTag(SrcNodes[k], NodeTags)
        /\ OptPresent(SrcNodes[k].o, "fill")
        /\ IsGradientObject(SrcNodes[k].o.fill)
        /\ SrcNodes[k].o.fill.o.type.s = "radial_gradient"
        /\ ~Has(SrcNodes[k].o.fill.o, "transform")
        /\ out[k].fill.type = "RadialGradient"
        /\ out[k].fill.transform = [ctor |-> "identity"]
        /\ Len(out[k].fill.stops) = 2
        /\ out[k].fill.stops[1] # out[k].fill.stops[2]

\* The vector network of a path node, written as an object whose vertices
\* and segments are objects.
IsNetworkObject(v) ==
    /\ v.t = "object"
    /\ \A key \in {"vertices", "segments"} :
          Has(v.o, key) =>
              (v.o[key].t = "array" /\ \A i \in DOMAIN v.o[key].a : v.o[key].a[i].t = "object")

SrcVertices(v) == IF Has(v.o, "vertices") THEN v.o.vertices.a ELSE <<>>
SrcSegments(v) == IF Has(v.o, "segments") THEN v.o.segments.a ELSE <<>>
SrcPoint(v) == <<NumberOrZero(v.a[1]), NumberOrZero(v.a[2])>>
SrcVertex(v, i) == SrcPoint(SrcVertices(v)[i + 1].o.p)
SrcInRange(v) ==
    \A i \in DOMAIN SrcSegments(v) :
        /\ SrcSegments(v)[i].o.a.n < Len(SrcVertices(v))
        /\ SrcSegments(v)[i].o.b.n < Len(SrcVertices(v))

\* The path nodes of the ingested file that carry a vector network object.
HasNetwork(k) ==
    /\ HasTag(SrcNodes[k], {"path"})
    /\ OptPresent(SrcNodes[k].o, "vectorNetwork")
    /\ IsNetworkObject(SrcNodes[k].o.vectorNetwork)
SrcNetwork(k) == SrcNodes[k].o.vectorNetwork

MoveCount(d) == Cardinality({i \in DOMAIN d : d[i].op = "M"})
CurveCount(d) == Cardinality({i \in DOMAIN d : d[i].op = "C"})

\* C12: the path of a network with k >= 1 segments whose vertex indices are
\* all in range is one move command followed by exactly k cubic-curve commands
\* in segment order; the curve of segment s has control points
\* vertex[s.a] + s.ta and vertex[s.b] + s.tb and ends at vertex[s.b].
C12_SegmentsBecomeCurves ==
    (pc = "parsed" /\ HasNodes(file)) =>
        \A k \in DOMAIN out :
            ( /\ HasNetwork(k)
              /\ SrcSegments(SrcNetwork(k)) # <<>>
              /\ SrcInRange(SrcNetwork(k)) ) =>
                LET vn == SrcNetwork(k)
                    d == out[k].data
                IN /\ Len(d) = Len(SrcSegments(vn)) + 1
                   /\ d[1].op = "M"
                   /\ MoveCount(d) = 1
                   /\ CurveCount(d) = Len(SrcSegments(vn))
                   /\ \A i \in DOMAIN SrcSegments(vn) :
                        LET s == SrcSegments(vn)[i].o
                            a == SrcVertex(vn, s.a.n)
                            b == SrcVertex(vn, s.b.n)
                            ta == SrcPoint(s.ta)
                            tb == SrcPoint(s.tb)
                        IN d[i + 1] =
                             [op |-> "C",
                              args |-> <<a[1] + ta[1], a[2] + ta[2],
                                         b[1] + tb[1], b[2] + tb[2], b[1], b[2]>>]

\* C12 witness: a converted path of two segments where the second starts at
\* the vertex the first ends at.
C12_Witness ==
    /\ pc = "parsed"
    /\ HasNodes(file)
    /\ \E k \in DOMAIN out :
        /\ HasNetwork(k)
        /\ Len(SrcSegments(SrcNetwork(k))) = 2
        /\ SrcInRange(SrcNetwork(k))
        /\ SrcSegments(SrcNetwork(k))[2].o.a = SrcSegments(SrcNetwork(k))[1].o.b
        /\ Len(out[k].data) = 3
        /\ out[k].data[2].op = "C" /\ out[k].data[3].op = "C"

\* The point the move command of a network goes to: the start vertex of the
\* first segment, or the origin when there is no segment.
SrcStart(vn) ==
    IF SrcSegments(vn) # <<>>
    THEN SrcVertex(vn, SrcSegments(vn)[1].o.a.n)
    ELSE <<0, 0>>

PolygonResult(kind) ==
    /\ res.op = "to_polygon"
    /\ res.self.kind = kind
    /\ res.self.point_count >= 3

\* Angles as ratios to pi: p before q, and p equal to k/(2n) for integers k, n.
RatioLess(p, q) == p.den > 0 /\ q.den > 0 /\ p.num * q.den < q.num * p.den
RatioIs(p, k, n) == p.den # 0 /\ p.num * 2 * n = k * p.den

\* A point that is (c.x + r cos a, c.y + r sin a) for one angle a and one
\* radius r.
OnCircle(p) ==
    /\ p.x.of = "cos" /\ p.y.of = "sin"
    /\ p.x.angle = p.y.angle
    /\ p.x.r = p.y.r

C15_RegularPolygonOnCircle ==
    PolygonResult("RegularPolygon") =>
        LET w == res.self.size.width
            h == res.self.size.height
            pts == res.value.points
        IN \A j \in DOMAIN pts :
              /\ OnCircle(pts[j])
              /\ 2 * pts[j].x.c = w
              /\ 2 * pts[j].y.c = h
              /\ 2 * pts[j].x.r = (IF w <= h THEN w ELSE h)

\* C15 witness: the polygon of a pentagon in a 100 x 60 box was derived; its
\* points are 30 away from (50, 30).
C15_Witness ==
    /\ PolygonResult("RegularPolygon")
    /\ res.self.point_count = 5
    /\ res.self.size = [width |-> 100 * 8, height |-> 60 * 8]
    /\ Len(res.value.points) = 5
    /\ res.value.points[3].x.c = 50 * 8
    /\ res.value.points[3].y.c = 30 * 8
    /\ res.value.points[3].y.r = 30 * 8

\* C16: for n >= 3, RegularStarPolygonNode::to_polygon yields exactly 2n
\* points; the point at index i has the outer radius min(w, h)/2 when i is
\* even and the inner radius (the outer radius times inner_radius) when i is
\* odd, and lies at angle -pi/2 + i*pi/n, so that the first point is the top
\* outer point and consecutive points are pi/n apart.
C16_StarAlternatesRadii ==
    PolygonResult("RegularStarPolygon") =>
        LET n == res.self.point_count
            w == res.self.size.width
            h == res.self.size.height
            q == res.self.inner_radius
            pts == res.value.points
        IN /\ Len(pts) = 2 * n
           /\ \A j \in 1..(2 * n) :
                LET i == j - 1
                IN /\ OnCircle(pts[j])
                   /\ IF i % 2 = 0
                      THEN 2 * pts[j].x.r = (IF w <= h THEN w ELSE h)
                      ELSE 2 * pts[j].x.r * q.den = (IF w <= h THEN w ELSE h) * q.num
                   /\ RatioIs(pts[j].x.angle, 2 * i - n, n)

\* C16 witness: the polygon of a five-pointed star of inner radius 0.4 in a
\* 100 x 100 box was derived: ten points, radius 50 then 20.
C16_Witness ==
    /\ PolygonResult("RegularStarPolygon")
    /\ res.self.point_count = 5
    /\ res.self.inner_radius = [num |-> 2, den |-> 5]
    /\ res.self.size = [width |-> 100 * 8, height |-> 100 * 8]
    /\ Len(res.value.points) = 10
    /\ res.value.points[1].x.r = 50 * 8
    /\ res.value.points[2].x.r = 20 * 8
    /\ RatioIs(res.value.points[1].x.angle, -5, 5)


\* The node a NodeFactory create_* operation has just returned.
Created == res.op = "create"
HasField(n, f) == f \in DOMAIN n
HasPaint(n, f) == HasField(n, f) /\ n[f] # None
White == <<255, 255, 255, 255>>
Black == <<0, 0, 0, 255>>
OpaqueSolid(color) == [type |-> "Solid", color |-> color, opacity |-> 1 * 8]

\* C17 (as stated): every node a NodeFactory create_* operation produces that
\* has a size is 100 x 100, except the Line node, which is 100 wide and 0
\* high.
C17_FactorySize ==
    (Created /\ HasField(res.value, "size")) =>
        res.value.size = [width |-> 100 * 8,
                          height |-> IF res.value.kind = "Line" THEN 0 ELSE 100 * 8]

\* C17 (amended): every node a NodeFactory create_* operation produces that
\* has a size is 100 wide; it is 0 high for a Line, 20 high for a TextSpan
\* and 100 high for every other kind.
C17_FactorySizeByKind ==
    (Created /\ HasField(res.value, "size")) =>
        res.value.size = [width |-> 100 * 8,
                          height |-> CASE res.value.kind = "Line" -> 0
                                       [] res.value.kind = "TextSpan" -> 20 * 8
                                       [] OTHER -> 100 * 8]

\* C17 witness: the factory returned a text span, 100 x 20.
C17_Witness ==
    /\ Created
    /\ res.value.kind = "TextSpan"
    /\ res.value.size = [width |-> 100 * 8, height |-> 20 * 8]

\* C18 (as stated): every node a NodeFactory create_* operation produces that
\* has a fill has an opaque white solid fill, and every one that has a stroke
\* has an opaque black solid stroke, stroke width 1.0 and Inside stroke
\* alignment.
C18_FactoryPaints ==
    Created =>
        /\ HasPaint(res.value, "fill") => res.value.fill = OpaqueSolid(White)
        /\ HasPaint(res.value, "stroke") =>
              /\ res.value.stroke = OpaqueSolid(Black)
              /\ res.value.stroke_width = 1 * 8
              /\ \/ HasField(res.value, "stroke_align") /\ res.value.stroke_align = "Inside"
                 \/ HasField(res.value, "_data_stroke_align")
                      /\ res.value._data_stroke_align = "Inside"

\* C18 (amended): every node a NodeFactory create_* operation produces that
\* has a fill has an opaque solid fill, black for a TextSpan and white for
\* every other kind, and every one that has a stroke has an opaque black solid
\* stroke, stroke width 1.0 and Inside stored stroke alignment.
C18_FactoryPaintsByKind ==
    Created =>
        /\ HasPaint(res.value, "fill") =>
              res.value.fill = OpaqueSolid(IF res.value.kind = "TextSpan" THEN Black ELSE White)
        /\ HasPaint(res.value, "stroke") =>
              /\ res.value.stroke = OpaqueSolid(Black)
              /\ res.value.stroke_width = 1 * 8
              /\ \/ HasField(res.value, "stroke_align") /\ res.value.stroke_align = "Inside"
                 \/ HasField(res.value, "_data_stroke_align")
                      /\ res.value._data_stroke_align = "Inside"

\* C18 witness: the factory returned a text span, filled black and without a
\* stroke.
C18_Witness ==
    /\ Created
    /\ res.value.kind = "TextSpan"
    /\ res.value.fill = OpaqueSolid(Black)
    /\ ~HasPaint(res.value, "stroke")

\* C19: for every Line node, whatever its stored stroke alignment is (Inside,
\* Center or Outside), get_stroke_align returns Center and leaves the stored
\* value as it was.
C19_LineStrokeAlignIsCenter ==
    res.op = "get_stroke_align" =>
        /\ res.self.kind = "Line"
        /\ res.value = "Center"
        /\ authored = res.self

\* C19 witness: the accessor was called on a Line storing Outside, which
\* still stores Outside.
C19_Witness ==
    /\ res.op = "get_stroke_align"
    /\ res.self._data_stroke_align = "Outside"
    /\ authored._data_stroke_align = "Outside"
    /\ res.value = "Center"

\* C20 (as stated): for every value v, RectangularCornerRadius::all(v) has
\* is_uniform() true and is_zero() equal to (v == 0.0).
C20_AllIsUniform ==
    res.op = "all" =>
        /\ res.is_uniform
        /\ res.is_zero <=> f32_eq(res.arg, Finite(0))

\* C20 (amended): for every value v other than NaN,
\* RectangularCornerRadius::all(v) has is_uniform() true; and for every value
\* v, NaN included, its is_zero() equals (v == 0.0).
C20_AllIsUniformUnlessNaN ==
    res.op = "all" =>
        /\ res.arg # NaN => res.is_uniform
        /\ res.is_zero <=> f32_eq(res.arg, Finite(0))

\* C20 witness: all(0.5) was built: uniform and not zero.
C20_Witness ==
    /\ res.op = "all"
    /\ res.arg = Finite(4)
    /\ res.value.br = Finite(4)
    /\ res.is_uniform
    /\ ~res.is_zero

\* The child-reference relation over the converted nodes: the node under key
\* a refers to the node under key b when b's identifier is in a's children
\* list.
ChildRefers(a, b) ==
    /\ "children" \in DOMAIN out[a]
    /\ \E i \in DOMAIN out[a].children : out[a].children[i] = out[b].id

\* A chain of converted nodes, each referring to the next and the last to the
\* first.
ChildCycles ==
    {p \in UNION {[1..n -> DOMAIN out] : n \in 1..Cardinality(DOMAIN out)} :
        /\ \A i \in 1..(Len(p) - 1) : ChildRefers(p[i], p[i + 1])
        /\ ChildRefers(p[Len(p)], p[1])}

\* C21: for every document the ingestion accepts, the child-reference
\* relation over the converted nodes is acyclic: no node is reachable from
\* itself by following children lists.
C21_ChildrenAcyclic ==
    pc = "parsed" => ChildCycles = {}

\* C22: every canonical node the ingestion produces has an opacity within
\* [0, 1], for every source document that parses.
C22_OpacityInUnitRange ==
    pc = "parsed" =>
        \A k \in DOMAIN out :
            "opacity" \in DOMAIN out[k] =>
                (out[k].opacity >= 0 /\ out[k].opacity <= 1 * 8)

\* What ingesting the file f alone yields for the node under key k.
AloneNodes(f) == parse(f).v.document.nodes
AloneConverted(f, k) == Node_from(AloneNodes(f)[k])

\* C23: parsing and converting two documents in any interleaving on
\* independent threads yields, for each document, exactly the result that
\* parsing it alone yields: at every point of every interleaving, what a
\* thread holds is a function of its own file only - the parse result is
\* parse(file), every converted node is the conversion of that file's node,
\* a thread fails exactly when its own file does not parse and aborts only on
\* a node of its own file.
C23_InterleavingIndependent ==
    \A t \in Threads :
        jobs[t].pc # "idle" =>
            LET j == jobs[t]
            IN /\ j.parsed = parse(j.file)
               /\ (j.pc = "failed") <=> ~parse(j.file).ok
               /\ parse(j.file).ok =>
                    /\ DOMAIN j.out \subseteq DOMAIN AloneNodes(j.file)
                    /\ \A k \in DOMAIN j.out :
                          /\ ~Node_from_panics(AloneNodes(j.file)[k])
                          /\ j.out[k] = AloneConverted(j.file, k)
                    /\ (j.pc = "panicked") =>
                          \E k \in DOMAIN AloneNodes(j.file) :
                              Node_from_panics(AloneNodes(j.file)[k])

\* C23 witness: two threads have ingested two different documents to the
\* end, the second thread having parsed after the first and converted
\* before it finished.
C23_Witness ==
    /\ jobs[1].pc = "parsed"
    /\ jobs[2].pc = "parsed"
    /\ jobs[1].file # jobs[2].file
    /\ DOMAIN jobs[1].out = {"n1", "n2"}
    /\ DOMAIN jobs[2].out = {"n1"}
    /\ jobs[1].out["n1"].kind = "Container"
    /\ jobs[2].out["n1"].kind = "Error"

\* C24: converting a parsed path node to a canonical node completes normally
\* (no abort) for every vector network that deserializes, networks whose
\* segments name a vertex index at or beyond the number of vertices included:
\* no ingestion of a parsed document ends in a panic.
C24_PathConversionCompletes ==
    pc # "panicked"

\* Whether some segment of the network starts at another vertex than the one
\* the segment before it ends at.
Disconnected(vn) ==
    \E i \in DOMAIN SrcSegments(vn) :
        /\ i + 1 \in DOMAIN SrcSegments(vn)
        /\ SrcSegments(vn)[i + 1].o.a.n # SrcSegments(vn)[i].o.b.n

\* C25: when consecutive segments of a vector network are disconnected
\* (segment i+1 starts at another vertex than segment i ends at), the
\* reconstruction emits no further move command: the path holds exactly one
\* move command, its first, and the curve of segment i+1, whose first control
\* point is taken from that segment's own start vertex, directly follows the
\* curve of segment i, which ends at segment i's end vertex.
C25_NoMoveBetweenComponents ==
    (pc = "parsed" /\ HasNodes(file)) =>
        \A k \in DOMAIN out :
            ( /\ HasNetwork(k)
              /\ SrcInRange(SrcNetwork(k))
              /\ Disconnected(SrcNetwork(k)) ) =>
                LET vn == SrcNetwork(k)
                    d == out[k].data
                IN /\ MoveCount(d) = 1
                   /\ d[1].op = "M"
                   /\ \A i \in DOMAIN SrcSegments(vn) :
                        (i + 1 \in DOMAIN SrcSegments(vn)) =>
                            LET s == SrcSegments(vn)[i].o
                                n == SrcSegments(vn)[i + 1].o
                                b == SrcVertex(vn, s.b.n)
                                a == SrcVertex(vn, n.a.n)
                                ta == SrcPoint(n.ta)
                            IN /\ d[i + 1].op = "C"
                               /\ d[i + 1].args[5] = b[1]
                               /\ d[i + 1].args[6] = b[2]
                               /\ d[i + 2].op = "C"
                               /\ d[i + 2].args[1] = a[1] + ta[1]
                               /\ d[i + 2].args[2] = a[2] + ta[2]

\* C25 witness: a converted path of two segments, the first ending at vertex
\* 1 and the second starting at vertex 0, whose path is a move and two
\* curves.
C25_Witness ==
    /\ pc = "parsed"
    /\ HasNodes(file)
    /\ \E k \in DOMAIN out :
        /\ HasNetwork(k)
        /\ SrcInRange(SrcNetwork(k))
        /\ Len(SrcSegments(SrcNetwork(k))) = 2
        /\ SrcSegments(SrcNetwork(k))[1].o.b.n = 1
        /\ SrcSegments(SrcNetwork(k))[2].o.a.n = 0
        /\ Len(out[k].data) = 3
        /\ out[k].data[1].op = "M"
        /\ out[k].data[2].op = "C"
        /\ out[k].data[3].op = "C"

\* The node objects of the ingested file carry pairwise-distinct string
\* identifiers.
SrcIdsDistinct ==
    /\ \A k \in DOMAIN SrcNodes :
          IsTagged(SrcNodes[k]) /\ TypedMember(SrcNodes[k].o, "id", "string")
    /\ \A a, b \in DOMAIN SrcNodes :
          a # b => SrcNodes[a].o.id.s # SrcNodes[b].o.id.s

\* C26: after ingesting a document whose node objects carry pairwise-distinct
\* identifiers, the converted canonical nodes have pairwise-distinct id()
\* values, whatever mix of recognized and unrecognized kinds the document
\* holds.
C26_CanonicalIdsDistinct ==
    (pc = "parsed" /\ HasNodes(file) /\ SrcIdsDistinct) =>
        \A a, b \in DOMAIN out :
            a # b => out[a].id # out[b].id

\* C27: a rectangle or container node whose cornerRadius is absent, or decodes
\* to None, converts to a canonical node whose corner radius is zero on all
\* four corners; when it decodes to Some(r) the canonical node carries
\* exactly r, unclamped, whatever the width and height of the node are.
C27_CornerRadiusCarried ==
    (pc = "parsed" /\ HasNodes(file)) =>
        \A k \in DOMAIN out :
            HasTag(SrcNodes[k], {"rectangle", "container"}) =>
                /\ out[k].corner_radius =
                      (IF IONodeOf(k).corner_radius.some
                       THEN IONodeOf(k).corner_radius.v
                       ELSE [tl |-> 0, tr |-> 0, bl |-> 0, br |-> 0])
                /\ ~Has(SrcNodes[k].o, "cornerRadius") =>
                      out[k].corner_radius = [tl |-> 0, tr |-> 0, bl |-> 0, br |-> 0]

\* C27 witness: a converted rectangle 4 wide and 20 high whose cornerRadius of
\* 10 is carried on all four corners.
C27_Witness ==
    /\ pc = "parsed"
    /\ HasNodes(file)
    /\ \E k \in DOMAIN out :
        /\ HasTag(SrcNodes[k], {"rectangle"})
        /\ IONodeOf(k).corner_radius.some
        /\ out[k].size = [width |-> 4 * 8, height |-> 20 * 8]
        /\ out[k].corner_radius = [tl |-> 10 * 8, tr |-> 10 * 8, bl |-> 10 * 8, br |-> 10 * 8]

\* C28: a text node lacking textAlign, textAlignVertical, textDecoration and
\* fontWeight resolves to left, top, none and 400, each default applied only
\* when its own member is absent; on conversion an absent fontFamily becomes
\* "Inter" and an absent fontSize becomes 14.0, and the values that are
\* present are carried through unchanged.
C28_TextDefaults ==
    (pc = "parsed" /\ HasNodes(file)) =>
        \A k \in DOMAIN SrcNodes :
            HasTag(SrcNodes[k], {"text"}) =>
                LET o == SrcNodes[k].o
                    n == IONodeOf(k)
                IN /\ n.text_align = (IF Has(o, "textAlign") THEN o.textAlign.s ELSE "left")
                   /\ n.text_align_vertical =
                        (IF Has(o, "textAlignVertical") THEN o.textAlignVertical.s ELSE "top")
                   /\ n.text_decoration =
                        (IF Has(o, "textDecoration") THEN o.textDecoration.s ELSE "none")
                   /\ n.font_weight = (IF Has(o, "fontWeight") THEN o.fontWeight.n ELSE 400)
                   /\ k \in DOMAIN out =>
                        /\ out[k].text_align = n.text_align
                        /\ out[k].text_align_vertical = n.text_align_vertical
                        /\ out[k].text_style.text_decoration = n.text_decoration
                        /\ out[k].text_style.font_weight = n.font_weight
                        /\ out[k].text_style.font_family =
                             (IF OptPresent(o, "fontFamily") THEN o.fontFamily.s ELSE "Inter")
                        /\ out[k].text_style.font_size =
                             (IF OptPresent(o, "fontSize") THEN NumberOrZero(o.fontSize)
                              ELSE 14 * 8)

\* C28 witness: a converted text node that brings only textDecoration and
\* fontSize: underline and 12.5 are carried, the rest is left, top, 400 and
\* "Inter".
C28_Witness ==
    /\ pc = "parsed"
    /\ HasNodes(file)
    /\ \E k \in DOMAIN out :
        /\ HasTag(SrcNodes[k], {"text"})
        /\ Has(SrcNodes[k].o, "textDecoration") /\ Has(SrcNodes[k].o, "fontSize")
        /\ ~Has(SrcNodes[k].o, "textAlign")
        /\ ~Has(SrcNodes[k].o, "textAlignVertical")
        /\ ~Has(SrcNodes[k].o, "fontWeight")
        /\ ~Has(SrcNodes[k].o, "fontFamily")
        /\ out[k].text_align = "left"
        /\ out[k].text_align_vertical = "top"
        /\ out[k].text_style.text_decoration = "underline"
        /\ out[k].text_style.font_weight = 400
        /\ out[k].text_style.font_family = "Inter"
        /\ out[k].text_style.font_size = 100

\* The fields of a PolygonNode that to_polygon takes over from its source.
CopiedFields ==
    {"id", "name", "active", "transform", "corner_radius", "fill", "stroke",
     "stroke_width", "stroke_align", "stroke_dash_array", "opacity", "blend_mode",
     "effect"}

\* C29: to_polygon on a RegularPolygonNode or RegularStarPolygonNode leaves
\* the source node unchanged and returns a PolygonNode whose id, name, active
\* flag, transform, corner radius, fill, stroke, stroke width, stroke
\* alignment, stroke dash array, opacity, blend mode and effect all equal the
\* source node's; only the point list is derived, and a second call on the
\* same node yields the same result as the first.
C29_ToPolygonCopiesFields ==
    /\ [](res.op = "to_polygon" =>
            /\ authored = res.self
            /\ res.value.kind = "Polygon"
            /\ DOMAIN res.value = CopiedFields \cup {"kind", "points"}
            /\ \A f \in CopiedFields : res.value[f] = res.self[f])
    /\ [][(res.op = "to_polygon" /\ res'.op = "to_polygon" /\ res'.self = res.self)
            => res'.value = res.value]_vars

\* C29 witness: the polygon of a restyled star was derived: it is named
\* "badge", inactive, blurred and a quarter opaque as its source still is.
C29_Witness ==
    /\ res.op = "to_polygon"
    /\ res.self.kind = "RegularStarPolygon"
    /\ authored.name = "badge"
    /\ res.value.name = "badge"
    /\ ~res.value.active
    /\ res.value.opacity = 2
    /\ res.value.effect = [some |-> TRUE, v |-> [type |-> "GaussianBlur", radius |-> 5 * 8]]
    /\ res.value.stroke_align = "Outside"
    /\ Len(res.value.points) = 2 * res.self.point_count

\* C30: every node of a recognized kind the ingestion produces has blend mode
\* Normal, stroke alignment Inside, no dash array and no effect, whatever the
\* source holds; rectangle, ellipse and path nodes get an opaque black solid
\* stroke whose width is the source strokeWidth, or 0.0 when that is absent,
\* while container nodes get no stroke, stroke width 0.0 and clip = true even
\* when the source brings a border.
C30_IngestionConstants ==
    (pc = "parsed" /\ HasNodes(file)) =>
        \A k \in DOMAIN out :
            HasTag(SrcNodes[k], NodeTags) =>
                LET o == SrcNodes[k].o
                    n == out[k]
                IN /\ n.blend_mode = "Normal"
                   /\ n.stroke_align = "Inside"
                   /\ "stroke_dash_array" \in DOMAIN n => n.stroke_dash_array = [some |-> FALSE]
                   /\ "effect" \in DOMAIN n => n.effect = [some |-> FALSE]
                   /\ o.type.s \in {"rectangle", "ellipse", "path"} =>
                        /\ n.stroke = [type |-> "Solid", color |-> <<0, 0, 0, 255>>,
                                       opacity |-> 1 * 8]
                        /\ n.stroke_width =
                             (IF OptPresent(o, "strokeWidth") THEN NumberOrZero(o.strokeWidth)
                              ELSE 0)
                   /\ o.type.s = "container" =>
                        /\ n.stroke = [some |-> FALSE]
                        /\ n.stroke_width = 0
                        /\ n.clip

\* C30 witness: a converted container whose source brings a border and a
\* strokeWidth of 3, and which has no stroke and stroke width 0.0.
C30_Witness ==
    /\ pc = "parsed"
    /\ HasNodes(file)
    /\ \E k \in DOMAIN out :
        /\ HasTag(SrcNodes[k], {"container"})
        /\ OptPresent(SrcNodes[k].o, "border")
        /\ OptPresent(SrcNodes[k].o.border.o, "borderWidth")
        /\ OptPresent(SrcNodes[k].o, "strokeWidth")
        /\ out[k].stroke = [some |-> FALSE]
        /\ out[k].stroke_width = 0
        /\ out[k].clip
        /\ out[k].blend_mode = "Normal"

============================================================================
